---- MODULE Spec2Model ----
(***************************************************************************)
(* Task-Management backend: the access gate (authenticateToken), the       *)
(* router and the seven task handlers of the task controller, over the     *)
(* two Mongo collections "task" and "subTask".                             *)
(*                                                                         *)
(* A request is a small process.  Its synchronous prefix (the gate, the    *)
(* userId check, the body validation up to the first await) runs in the    *)
(* step that starts it; afterwards every awaited store call is one atomic  *)
(* step, together with the JavaScript that runs until the next await.      *)
(***************************************************************************)
EXTENDS Integers, Sequences, FiniteSets, TLC

VARIABLES tasks, subtasks, now, reqs, deletedOk, calls

vars == <<tasks, subtasks, now, reqs, deletedOk, calls>>

----------------------------------------------------------------------------
(* Bounds of the model *)

MaxTasks == 2
MaxSubs  == 3
MaxTime  == 1
MaxReqs  == 2
MaxCalls == 3
MaxCreateCalls == 2
MaxBulkCalls == 3
MaxFailCalls == 3
MaxSeqCalls  == 4
MaxRaceCalls == 4
MaxUpdateCalls == 3
MaxPairCalls == 4
MaxCascadeCalls == 4
MaxStopCalls == 4

----------------------------------------------------------------------------
(* JavaScript values *)

Undefined == "undefined"
NaN == -1

Falsy(v) == v \in {Undefined, ""}

PENDING     == "pending"
IN_PROGRESS == "in-progress"
COMPLETED   == "completed"

validStatuses == <<PENDING, IN_PROGRESS, COMPLETED>>

Includes(seq, v) == \E i \in 1..Len(seq) : seq[i] = v

DateStrings == <<"D0", "D1", "D2", "D3", "D4", "D5">>

\* new Date(dateString): the time value, NaN for an Invalid Date
NewDate(dateString) ==
    IF \E i \in 1..Len(DateStrings) : DateStrings[i] = dateString
    THEN (CHOOSE i \in 1..Len(DateStrings) : DateStrings[i] = dateString) - 1
    ELSE NaN

\* Variant: the present instant counts as future
isValidFutureDateOrNow(dateString, currentDate) ==
    LET inputDate == NewDate(dateString)
    IN  inputDate # NaN /\ inputDate >= currentDate

isValidFutureDate(dateString, currentDate) ==
    LET inputDate == NewDate(dateString)
    IN  inputDate # NaN /\ inputDate > currentDate

----------------------------------------------------------------------------
(* Token service and access gate: src/util/authUtil.js *)

JWT_SECRET == "t@a#sK_m@n@g3m3nt"

Users  == {"A", "B"}
Emails == [A |-> "a@x.io", B |-> "b@x.io"]

\* req.user when the gate has not set it: undefined.  A req.user that is set
\* carries the email of its payload, so no payload equals this value.
NoUser == [userId |-> Undefined, email |-> Undefined]

\* jwt.sign(payload, secret): the payload travels in the clear, the signature
\* is a function of the secret.
jwtSign(payload, secret) == <<"jwt", payload.userId, payload.email, secret>>

\* jwt.verify(token, secret, callback): callback(err, payload)
jwtVerify(token, secret) ==
    IF Len(token) = 4 /\ token[1] = "jwt" /\ token[4] = secret
    THEN [err |-> FALSE, payload |-> [userId |-> token[2], email |-> token[3]]]
    ELSE [err |-> TRUE, payload |-> NoUser]

generateToken(userId, email) ==
    LET payload == [userId |-> userId, email |-> email]
        secret  == JWT_SECRET
    IN  jwtSign(payload, secret)

\* An Authorization header is a sequence of space-separated words; the absent
\* header (undefined) is the empty sequence.  Every word is a tuple of strings.
NoHeader == << >>
Bearer(token) == << <<"Bearer">>, token >>

\* token.split(" ")[1]
SplitSecond(header) == IF Len(header) >= 2 THEN header[2] ELSE << >>

\* The names bound in the module scope of authUtil.js (its two imports).
authUtilImports == {"jwt", "configVariables"}

\* What the gate leaves behind: the response it sent (sent = 0 when it sent
\* none), the number of next() calls, req.user, and whether it threw.
GateDenied(message) ==
    [threw |-> FALSE, sent |-> 1, status |-> 403, message |-> message,
     next |-> 0, user |-> NoUser, verified |-> FALSE]

GateThrew ==
    [threw |-> TRUE, sent |-> 0, status |-> 0, message |-> "",
     next |-> 0, user |-> NoUser, verified |-> FALSE]

GatePassed(payload) ==
    [threw |-> FALSE, sent |-> 0, status |-> 0, message |-> "",
     next |-> 1, user |-> payload, verified |-> TRUE]

\* Variant: a request without a header is let through
authenticateTokenOpen(authorization) ==
    IF authorization # NoHeader
    THEN GateThrew
    ELSE GatePassed(NoUser)

authenticateToken(authorization) ==
    IF authorization # NoHeader
    THEN LET token == SplitSecond(authorization)
         IN  \* the arguments of jwt.verify are evaluated first: serverConfig
             \* is not a name of this module
             IF "serverConfig" \notin authUtilImports
             THEN GateThrew
             ELSE LET v == jwtVerify(token, JWT_SECRET)
                  IN  IF v.err
                      THEN GateDenied("Unauthorized Access")
                      ELSE GatePassed(v.payload)
    ELSE GateDenied("Unauthorized Access")

----------------------------------------------------------------------------
(* Documents: src/models/task.js, src/models/subTask.js.  The _id of a      *)
(* document is its position in its collection.                              *)

\* Variant: the status of the request is dropped and the default applies
NewTaskDefaultStatus(subject, deadline, status, createdBy, t) ==
    [subject |-> subject, deadline |-> deadline, status |-> PENDING,
     createdBy |-> createdBy, subtasks |-> << >>, is_deleted |-> FALSE,
     created_at |-> t, updated_at |-> t]

\* new Task({subject, deadline, status, createdBy}) with the schema defaults
NewTask(subject, deadline, status, createdBy, t) ==
    [subject |-> subject, deadline |-> deadline, status |-> status,
     createdBy |-> createdBy, subtasks |-> << >>, is_deleted |-> FALSE,
     created_at |-> t, updated_at |-> t]

\* new SubTask({subject, deadline, status, taskId}) with the schema defaults
NewSubTask(subject, deadline, status, taskId, t) ==
    [subject |-> subject, deadline |-> deadline,
     status |-> IF status = Undefined THEN PENDING ELSE status,
     taskId |-> taskId, is_deleted |-> FALSE,
     created_at |-> t, updated_at |-> t]

\* The validators document.save() runs: required paths and the status enum
SchemaValid(doc) ==
    /\ ~Falsy(doc.subject)
    /\ doc.deadline # NaN
    /\ Includes(validStatuses, doc.status)

NoDoc == NewSubTask(Undefined, NaN, Undefined, 0, 0)

WithId(doc, id) == [id |-> id] @@ doc

TaskIds == 1..Len(tasks)
SubIds  == 1..Len(subtasks)

\* Variant: the soft-delete flag is left out of the filter
MatchesTaskAnyState(store, taskId, userId) ==
    /\ taskId \in 1..Len(store)
    /\ store[taskId].createdBy = userId

\* Variant: the owner is left out of the filter
MatchesTaskAnyOwner(store, taskId, userId) ==
    /\ taskId \in 1..Len(store)
    /\ store[taskId].is_deleted = FALSE

\* The filter { _id: taskId, createdBy: userId, is_deleted: false }
MatchesTask(store, taskId, userId) ==
    /\ taskId \in 1..Len(store)
    /\ store[taskId].createdBy = userId
    /\ store[taskId].is_deleted = FALSE

\* Why the filter above matched nothing (ghost, recorded with the lookup)
MissKind(store, taskId, userId) ==
    IF taskId \notin 1..Len(store) THEN "absent"
    ELSE IF store[taskId].createdBy # userId THEN "foreign"
    ELSE IF store[taskId].is_deleted THEN "deleted"
    ELSE "none"

RECURSIVE SelectIds(_, _)
\* the members of the set of ids S in ascending (insertion) order
SelectIds(S, n) ==
    IF n = 0 THEN << >>
    ELSE IF n \in S THEN Append(SelectIds(S, n - 1), n) ELSE SelectIds(S, n - 1)

\* Variant: the owner is left out of the filter
TaskFindAnyOwner(store, userId) ==
    SelectIds({i \in 1..Len(store) : store[i].is_deleted = FALSE}, Len(store))

\* Variant: the filter asks for the soft-deleted tasks
TaskFindDeleted(store, userId) ==
    SelectIds({i \in 1..Len(store) :
                 store[i].createdBy = userId /\ store[i].is_deleted = TRUE},
              Len(store))

\* Task.find({ createdBy: userId, is_deleted: false })
TaskFind(store, userId) ==
    SelectIds({i \in 1..Len(store) :
                 store[i].createdBy = userId /\ store[i].is_deleted = FALSE},
              Len(store))

\* Variant: the subtasks are read through the reference list of the parent
SubTaskFindByRefs(store, taskId) ==
    SelectIds({i \in 1..Len(store) :
                 /\ store[i].taskId = taskId /\ store[i].is_deleted = FALSE
                 /\ taskId \in TaskIds
                 /\ \E j \in 1..Len(tasks[taskId].subtasks) :
                       tasks[taskId].subtasks[j] = i},
              Len(store))

\* SubTask.find({ taskId, is_deleted: false })
SubTaskFind(store, taskId) ==
    SelectIds({i \in 1..Len(store) :
                 store[i].taskId = taskId /\ store[i].is_deleted = FALSE},
              Len(store))

\* Variant: a document with the content of a stored subtask of the same task
\* is not inserted, the stored subtask is made active again
SubTaskUpsert(store, doc) ==
    LET same == {i \in 1..Len(store) :
                   /\ store[i].taskId = doc.taskId
                   /\ store[i].subject = doc.subject
                   /\ store[i].deadline = doc.deadline
                   /\ store[i].status = doc.status}
    IN  IF same = {}
        THEN [store |-> Append(store, doc), id |-> Len(store) + 1]
        ELSE LET i == CHOOSE i \in same : \A j \in same : i <= j
             IN  [store |-> [store EXCEPT ![i].is_deleted = FALSE], id |-> i]

\* save() of a new document: it is inserted under the _id that new SubTask()
\* generated, an id no stored document has
SubTaskInsert(store, doc) ==
    [store |-> Append(store, doc), id |-> Len(store) + 1]

\* Variant: the update matches nothing
SubTaskUpdateManyNone(store, taskId, t) == store

\* Variant: the soft-delete flag is left out of the filter
SubTaskUpdateManyAnyFlag(store, taskId, t) ==
    [i \in 1..Len(store) |->
        IF store[i].taskId = taskId
        THEN [store[i] EXCEPT !.is_deleted = TRUE, !.updated_at = t]
        ELSE store[i]]

\* SubTask.updateMany({ taskId, is_deleted: false },
\*                    { $set: { is_deleted: true, updated_at } })
SubTaskUpdateMany(store, taskId, t) ==
    [i \in 1..Len(store) |->
        IF store[i].taskId = taskId /\ store[i].is_deleted = FALSE
        THEN [store[i] EXCEPT !.is_deleted = TRUE, !.updated_at = t]
        ELSE store[i]]

\* Variant: only the first reference of the list is resolved
PopulateFirst(refs, store) ==
    IF refs # << >> /\ refs[1] \in 1..Len(store) /\ store[refs[1]].is_deleted = FALSE
    THEN <<WithId(store[refs[1]], refs[1])>>
    ELSE << >>

\* populate({ path: 'subtasks', match: { is_deleted: false } }) of one task:
\* the referenced documents that exist and match, in the order of the list
RECURSIVE Populate(_, _)
Populate(refs, store) ==
    IF refs = << >> THEN << >>
    ELSE LET id   == refs[1]
             rest == Populate(Tail(refs), store)
         IN  IF id \in 1..Len(store) /\ store[id].is_deleted = FALSE
             THEN <<WithId(store[id], id)>> \o rest
             ELSE rest

----------------------------------------------------------------------------
(* Requests *)

ReqIds == 1..MaxReqs

Ops == {"getTasks", "createTask", "updateTask", "deleteTask",
        "getSubtasks", "createSubTask", "updateSubtasks"}

NoBody == [subject |-> Undefined, deadline |-> Undefined, status |-> Undefined,
           isArray |-> FALSE, subtasks |-> << >>]

\* A request slot.  op, auth, user, taskId, body are req; status, message,
\* data are res; ts, doc, found are the handler's locals across awaits;
\* the rest is bookkeeping: sent counts replies, next counts next() calls,
\* handler tells that a task handler was entered, reads/writes count store
\* calls, t0 is the instant of the body validation, miss is the reason the
\* target lookup matched nothing, after is the set of tasks whose deletion
\* had been confirmed when the request arrived, pre is the store as a
\* createSubTask or a bulk replace found it on arrival, failed tells that an
\* exception reached the catch block of the handler.
Idle ==
    [pc |-> "idle", op |-> "none", routed |-> FALSE, auth |-> NoHeader,
     user |-> NoUser, taskId |-> 0, body |-> NoBody,
     ts |-> 0, doc |-> NoDoc, found |-> << >>,
     status |-> 0, message |-> "", data |-> << >>,
     sent |-> 0, sentBy |-> "none", next |-> 0, verified |-> FALSE,
     threw |-> FALSE, handler |-> FALSE, reads |-> 0, writes |-> 0,
     t0 |-> 0, miss |-> "none", after |-> {}, pre |-> << >>, failed |-> FALSE]

\* res.status(status).json(...): the locals die with the call
Reply(q, status, message, data) ==
    [q EXCEPT !.pc = "done", !.status = status, !.message = message,
              !.data = data, !.sent = @ + 1, !.sentBy = "handler",
              !.ts = 0, !.doc = NoDoc, !.found = << >>]

\* catch (err) { return res.status(500).json({ message }) }
InternalError(q, message) ==
    [Reply(q, 500, message, << >>) EXCEPT !.failed = TRUE]

\* Variant: only the first entry of the input is validated
FirstInvalidHeadOnly(specs, t) ==
    IF specs # << >>
         /\ \/ Falsy(specs[1].subject) \/ Falsy(specs[1].deadline)
            \/ ~isValidFutureDate(specs[1].deadline, t)
            \/ (~Falsy(specs[1].status)
                  /\ ~Includes(validStatuses, specs[1].status))
    THEN 1 ELSE 0

\* The first entry of a bulk input that fails validation, 0 when none does
FirstInvalid(specs, t) ==
    LET bad == {i \in 1..Len(specs) :
                  \/ Falsy(specs[i].subject) \/ Falsy(specs[i].deadline)
                  \/ ~isValidFutureDate(specs[i].deadline, t)
                  \/ (~Falsy(specs[i].status)
                        /\ ~Includes(validStatuses, specs[i].status))}
    IN  IF bad = {} THEN 0 ELSE CHOOSE i \in bad : \A j \in bad : i <= j

\* const userId = req.user.userId, the first statement of every try block,
\* throws a TypeError when req.user is undefined
UserIdThrows(q) == q.user = NoUser

\* The synchronous prefix of each handler, up to its first await.
getTasksStart(q, t) ==
    LET userId == q.user.userId
    IN  IF UserIdThrows(q)
        THEN InternalError(q, "Internal Server Error.")
        ELSE IF Falsy(userId)
        THEN Reply(q, 400, "unauthorised - userId is a required field.", << >>)
        ELSE [q EXCEPT !.pc = "getTasks.find"]

createTaskStart(q, t) ==
    LET userId   == q.user.userId
        subject  == q.body.subject
        deadline == q.body.deadline
        status   == q.body.status
    IN  IF UserIdThrows(q)
        THEN InternalError(q, "Internal Server Error")
        ELSE IF Falsy(userId)
        THEN Reply(q, 400, "unauthorised - userId is a required field.", << >>)
        ELSE IF Falsy(subject) \/ Falsy(deadline) \/ Falsy(status)
        THEN Reply(q, 400, "subject, deadline, and status are required fields.", << >>)
        ELSE IF ~isValidFutureDate(deadline, t)
        THEN Reply(q, 400, "Deadline must be a future date", << >>)
        ELSE IF ~Includes(validStatuses, status)
        THEN Reply(q, 400, "status must be one of pending, in-progress or completed.",
                   validStatuses)
        ELSE [q EXCEPT !.pc = "createTask.save",
                       !.doc = NewTask(subject, NewDate(deadline), status, userId, t)]

updateTaskStart(q, t) ==
    LET userId   == q.user.userId
        subject  == q.body.subject
        deadline == q.body.deadline
        status   == q.body.status
    IN  IF UserIdThrows(q)
        THEN InternalError(q, "Internal Server Error")
        ELSE IF Falsy(userId)
        THEN Reply(q, 400, "unauthorised - userId is a required field.", << >>)
        ELSE IF ~Falsy(deadline) /\ ~isValidFutureDate(deadline, t)
        THEN Reply(q, 400, "Deadline must be a future date", << >>)
        ELSE IF ~Falsy(status) /\ ~Includes(validStatuses, status)
        THEN Reply(q, 400, "status must be one of pending, in-progress, completed",
                   validStatuses)
        ELSE [q EXCEPT !.pc = "updateTask.findOneAndUpdate", !.ts = t]

deleteTaskStart(q, t) ==
    LET userId == q.user.userId
    IN  IF UserIdThrows(q)
        THEN InternalError(q, "Internal Server Error")
        ELSE IF Falsy(userId)
        THEN Reply(q, 400, "unauthorised - userId is a required field.", << >>)
        ELSE [q EXCEPT !.pc = "deleteTask.findOneAndUpdate", !.ts = t]

getSubtasksStart(q, t) ==
    LET userId == q.user.userId
    IN  IF UserIdThrows(q)
        THEN InternalError(q, "Internal Server Error")
        ELSE IF Falsy(userId)
        THEN Reply(q, 400, "unauthorised - userId is a required field.", << >>)
        ELSE [q EXCEPT !.pc = "getSubtasks.findOne"]

\* const { subject, deadline, status = PENDING } = req.body
DefaultStatus(status) == IF status = Undefined THEN PENDING ELSE status

createSubTaskStart(q, t) ==
    LET userId   == q.user.userId
        subject  == q.body.subject
        deadline == q.body.deadline
        status   == DefaultStatus(q.body.status)
    IN  IF UserIdThrows(q)
        THEN InternalError(q, "Internal Server Error")
        ELSE IF Falsy(userId)
        THEN Reply(q, 400, "Unauthorized - userId is required", << >>)
        ELSE IF Falsy(subject) \/ Falsy(deadline)
        THEN Reply(q, 400, "Subject and deadline are required fields", << >>)
        ELSE IF ~isValidFutureDate(deadline, t)
        THEN Reply(q, 400, "Deadline must be a future date", << >>)
        ELSE IF ~Falsy(status) /\ ~Includes(validStatuses, status)
        THEN Reply(q, 400, "status must be one of pending, in-progress, completed",
                   validStatuses)
        ELSE [q EXCEPT !.pc = "createSubTask.findOne"]

updateSubtasksStart(q, t) ==
    IF UserIdThrows(q)
    THEN InternalError(q, "Internal Server Error")
    ELSE [q EXCEPT !.pc = "updateSubtasks.findOne"]

\* The router: the handler registered for the route
StartHandler(q, t) ==
    LET h == [q EXCEPT !.handler = TRUE, !.t0 = t]
    IN  CASE q.op = "getTasks"       -> getTasksStart(h, t)
          [] q.op = "createTask"     -> createTaskStart(h, t)
          [] q.op = "updateTask"     -> updateTaskStart(h, t)
          [] q.op = "deleteTask"     -> deleteTaskStart(h, t)
          [] q.op = "getSubtasks"    -> getSubtasksStart(h, t)
          [] q.op = "createSubTask"  -> createSubTaskStart(h, t)
          [] q.op = "updateSubtasks" -> updateSubtasksStart(h, t)

\* Variant: the route is registered without the gate
RouteUngated(q, t) == StartHandler([q EXCEPT !.routed = TRUE], t)

\* router.<method>(path, authenticateToken, handler): the gate runs first and
\* the handler runs when the gate calls next().  An exception thrown by the
\* gate is answered by the framework's error handler with a 500.
Route(q, t) ==
    LET g == authenticateToken(q.auth)
        a == [q EXCEPT !.routed = TRUE, !.user = g.user, !.next = g.next,
                       !.verified = g.verified, !.threw = g.threw]
    IN  IF g.next > 0 THEN StartHandler(a, t)
        ELSE IF g.threw
        THEN [a EXCEPT !.pc = "done", !.status = 500,
                       !.message = "ReferenceError: serverConfig is not defined",
                       !.sent = 1, !.sentBy = "framework"]
        ELSE [a EXCEPT !.pc = "done", !.status = g.status, !.message = g.message,
                       !.sent = g.sent, !.sentBy = "gate"]

----------------------------------------------------------------------------
(* The awaited store calls, one step each *)

\* Only the latest finished request is remembered: a request that replies
\* clears the slots of those that replied before it.
Set(r, q) ==
    reqs' = [s \in ReqIds |->
               IF s = r THEN q
               ELSE IF q.pc = "done" /\ reqs[s].pc = "done" THEN Idle
               ELSE reqs[s]]

At(r, pc) == reqs[r].pc = pc

Read(q)  == [q EXCEPT !.reads = @ + 1]
Wrote(q) == [q EXCEPT !.writes = @ + 1]

Lookup(q, store) ==
    [Read(q) EXCEPT !.miss = MissKind(store, q.taskId, q.user.userId)]

\* Variant: a task of another owner is answered with a permission error
NotFoundOrForbidden(q) ==
    IF q.miss = "foreign"
    THEN Reply(q, 403, "Forbidden", << >>)
    ELSE Reply(q, 404, "Task not found", << >>)

NotFound(q) == Reply(q, 404, "Task not found", << >>)

\* getTasks: Task.find(...), then the populate query when there is a reference
GetTasksFind(r) ==
    /\ At(r, "getTasks.find")
    /\ LET q     == Read(reqs[r])
           ids   == TaskFind(tasks, q.user.userId)
           found == [i \in 1..Len(ids) |-> WithId(tasks[ids[i]], ids[i])]
       IN  IF \A i \in 1..Len(found) : found[i].subtasks = << >>
           THEN Set(r, Reply(q, 200, "", found))
           ELSE Set(r, [q EXCEPT !.pc = "getTasks.populate", !.found = found])
    /\ UNCHANGED <<tasks, subtasks, now, deletedOk, calls>>

GetTasksPopulate(r) ==
    /\ At(r, "getTasks.populate")
    /\ LET q      == Read(reqs[r])
           joined == [i \in 1..Len(q.found) |->
                        [q.found[i] EXCEPT !.subtasks = Populate(@, subtasks)]]
       IN  Set(r, Reply(q, 200, "", joined))
    /\ UNCHANGED <<tasks, subtasks, now, deletedOk, calls>>

\* createTask: task.save()
CreateTaskSave(r) ==
    /\ At(r, "createTask.save")
    /\ LET q == Wrote(reqs[r])
       IN  IF SchemaValid(q.doc)
           THEN /\ tasks' = Append(tasks, q.doc)
                /\ Set(r, Reply(q, 201, "", <<WithId(q.doc, Len(tasks) + 1)>>))
           ELSE /\ tasks' = tasks
                /\ Set(r, InternalError(q, "Internal Server Error"))
    /\ UNCHANGED <<subtasks, now, deletedOk, calls>>

\* Variant: a key whose value is undefined is written as well
ApplyUpdateFieldsAll(doc, body, t) ==
    [doc EXCEPT
       !.subject    = body.subject,
       !.status     = body.status,
       !.deadline   = IF Falsy(body.deadline) THEN @ ELSE NewDate(body.deadline),
       !.updated_at = t]

\* The update document { subject, status, updated_at [, deadline] }: keys
\* whose value is undefined are not part of the update that is sent.
ApplyUpdateFields(doc, body, t) ==
    [doc EXCEPT
       !.subject    = IF body.subject = Undefined THEN @ ELSE body.subject,
       !.status     = IF body.status = Undefined THEN @ ELSE body.status,
       !.deadline   = IF Falsy(body.deadline) THEN @ ELSE NewDate(body.deadline),
       !.updated_at = t]

\* updateTask: Task.findOneAndUpdate(filter, updateFields, { new: true })
UpdateTaskFindOneAndUpdate(r) ==
    /\ At(r, "updateTask.findOneAndUpdate")
    /\ LET q == Wrote(Lookup(reqs[r], tasks))
       IN  IF MatchesTask(tasks, q.taskId, q.user.userId)
           THEN LET task == ApplyUpdateFields(tasks[q.taskId], q.body, q.ts)
                IN  /\ tasks' = [tasks EXCEPT ![q.taskId] = task]
                    /\ Set(r, Reply(q, 200, "", <<WithId(task, q.taskId)>>))
           ELSE /\ tasks' = tasks
                /\ Set(r, NotFound(q))
    /\ UNCHANGED <<subtasks, now, deletedOk, calls>>

\* Variant: the first write flags the subtasks, the task is left to the second
DeleteTaskSubtasksFirst(r) ==
    /\ At(r, "deleteTask.findOneAndUpdate")
    /\ LET q == Wrote(Lookup(reqs[r], tasks))
       IN  IF MatchesTask(tasks, q.taskId, q.user.userId)
           THEN /\ subtasks' = SubTaskUpdateMany(subtasks, q.taskId, q.ts)
                /\ Set(r, [q EXCEPT !.pc = "deleteTask.updateMany", !.ts = now])
           ELSE /\ subtasks' = subtasks
                /\ Set(r, NotFound(q))
    /\ UNCHANGED <<tasks, now, deletedOk, calls>>

\* deleteTask: Task.findOneAndUpdate(filter, { $set: { is_deleted: true, .. } })
DeleteTaskFindOneAndUpdate(r) ==
    /\ At(r, "deleteTask.findOneAndUpdate")
    /\ LET q == Wrote(Lookup(reqs[r], tasks))
       IN  IF MatchesTask(tasks, q.taskId, q.user.userId)
           THEN /\ tasks' = [tasks EXCEPT ![q.taskId].is_deleted = TRUE,
                                          ![q.taskId].updated_at = q.ts]
                /\ Set(r, [q EXCEPT !.pc = "deleteTask.updateMany", !.ts = now])
           ELSE /\ tasks' = tasks
                /\ Set(r, NotFound(q))
    /\ UNCHANGED <<subtasks, now, deletedOk, calls>>

\* deleteTask: SubTask.updateMany({ taskId, is_deleted: false }, ...)
DeleteTaskUpdateMany(r) ==
    /\ At(r, "deleteTask.updateMany")
    /\ LET q == Wrote(reqs[r])
       IN  /\ subtasks' = SubTaskUpdateMany(subtasks, q.taskId, q.ts)
           /\ Set(r, Reply(q, 200, "Task deleted successfully", << >>))
           /\ deletedOk' = deletedOk \cup {q.taskId}
    /\ UNCHANGED <<tasks, now, calls>>

\* getSubtasks: Task.findOne(filter)
GetSubtasksFindOne(r) ==
    /\ At(r, "getSubtasks.findOne")
    /\ LET q == Lookup(reqs[r], tasks)
       IN  IF MatchesTask(tasks, q.taskId, q.user.userId)
           THEN Set(r, [q EXCEPT !.pc = "getSubtasks.find"])
           ELSE Set(r, NotFound(q))
    /\ UNCHANGED <<tasks, subtasks, now, deletedOk, calls>>

\* getSubtasks: SubTask.find({ taskId, is_deleted: false })
GetSubtasksFind(r) ==
    /\ At(r, "getSubtasks.find")
    /\ LET q   == Read(reqs[r])
           ids == SubTaskFind(subtasks, q.taskId)
       IN  Set(r, Reply(q, 200, "",
                        [i \in 1..Len(ids) |-> WithId(subtasks[ids[i]], ids[i])]))
    /\ UNCHANGED <<tasks, subtasks, now, deletedOk, calls>>

\* Variant: the parent task is not looked up before the subtask is built
CreateSubTaskFindOneAny(r) ==
    /\ At(r, "createSubTask.findOne")
    /\ Set(r, [Read(reqs[r]) EXCEPT !.pc = "createSubTask.save",
                  !.doc = NewSubTask(reqs[r].body.subject,
                                     NewDate(reqs[r].body.deadline),
                                     DefaultStatus(reqs[r].body.status),
                                     reqs[r].taskId, now)])
    /\ UNCHANGED <<tasks, subtasks, now, deletedOk, calls>>

\* createSubTask: Task.findOne(filter), then new SubTask({...})
CreateSubTaskFindOne(r) ==
    /\ At(r, "createSubTask.findOne")
    /\ LET q == Lookup(reqs[r], tasks)
       IN  IF MatchesTask(tasks, q.taskId, q.user.userId)
           THEN Set(r, [q EXCEPT !.pc = "createSubTask.save",
                                 !.doc = NewSubTask(q.body.subject,
                                                    NewDate(q.body.deadline),
                                                    DefaultStatus(q.body.status),
                                                    q.taskId, now)])
           ELSE Set(r, NotFound(q))
    /\ UNCHANGED <<tasks, subtasks, now, deletedOk, calls>>

\* createSubTask: subTask.save()
CreateSubTaskSave(r) ==
    /\ At(r, "createSubTask.save")
    /\ LET q   == Wrote(reqs[r])
           ins == SubTaskInsert(subtasks, q.doc)
       IN  IF SchemaValid(q.doc)
           THEN /\ subtasks' = ins.store
                /\ Set(r, [q EXCEPT !.pc = "createSubTask.push",
                                    !.found = <<WithId(q.doc, ins.id)>>])
           ELSE /\ subtasks' = subtasks
                /\ Set(r, InternalError(q, "Internal Server Error"))
    /\ UNCHANGED <<tasks, now, deletedOk, calls>>

\* Variant: the reference list of the parent is left as it is
CreateSubTaskNoPush(r) ==
    /\ At(r, "createSubTask.push")
    /\ Set(r, Reply(Wrote(reqs[r]), 201, "", reqs[r].found))
    /\ UNCHANGED <<tasks, subtasks, now, deletedOk, calls>>

\* Variant: the list is written back as the request found it on arrival,
\* with the new id at its end
CreateSubTaskPushStale(r) ==
    /\ At(r, "createSubTask.push")
    /\ LET q == Wrote(reqs[r])
       IN  /\ tasks' = IF q.taskId \in TaskIds
                       THEN [tasks EXCEPT ![q.taskId].subtasks =
                               Append(q.pre[1][q.taskId].subtasks, q.found[1].id)]
                       ELSE tasks
           /\ Set(r, Reply(q, 201, "", q.found))
    /\ UNCHANGED <<subtasks, now, deletedOk, calls>>

\* Variant: the update is not restricted to the parent, the id is appended
\* to the reference list of every task
CreateSubTaskPushAll(r) ==
    /\ At(r, "createSubTask.push")
    /\ LET q == Wrote(reqs[r])
       IN  /\ tasks' = [t \in TaskIds |->
                          [tasks[t] EXCEPT !.subtasks = Append(@, q.found[1].id)]]
           /\ Set(r, Reply(q, 201, "", q.found))
    /\ UNCHANGED <<subtasks, now, deletedOk, calls>>

\* createSubTask: Task.findByIdAndUpdate(taskId, { $push: { subtasks: _id } })
CreateSubTaskPush(r) ==
    /\ At(r, "createSubTask.push")
    /\ LET q == Wrote(reqs[r])
       IN  /\ tasks' = IF q.taskId \in TaskIds
                       THEN [tasks EXCEPT ![q.taskId].subtasks =
                                              Append(@, q.found[1].id)]
                       ELSE tasks
           /\ Set(r, Reply(q, 201, "", q.found))
    /\ UNCHANGED <<subtasks, now, deletedOk, calls>>

\* new SubTask({ ..., status: subtaskData.status || PENDING, taskId })
BulkSubTask(spec, taskId, t) ==
    NewSubTask(spec.subject, NewDate(spec.deadline),
               IF Falsy(spec.status) THEN PENDING ELSE spec.status, taskId, t)

BulkInvalidMessage(spec, t) ==
    IF Falsy(spec.subject) \/ Falsy(spec.deadline)
    THEN "subject and deadline are required fields for subtask."
    ELSE IF ~isValidFutureDate(spec.deadline, t)
    THEN "Deadline must be a future date"
    ELSE "status must be one of pending, in-progress, completed"

\* updateSubtasks: Task.findOne(filter), then the validation of the input
UpdateSubtasksFindOne(r) ==
    /\ At(r, "updateSubtasks.findOne")
    /\ LET q     == [Lookup(reqs[r], tasks) EXCEPT !.t0 = now]
           specs == q.body.subtasks
           bad   == FirstInvalid(specs, now)
       IN  IF ~MatchesTask(tasks, q.taskId, q.user.userId)
           THEN Set(r, NotFound(q))
           ELSE IF ~q.body.isArray
           THEN Set(r, Reply(q, 400, "subtasks must be an array", << >>))
           ELSE IF bad # 0
           THEN Set(r, Reply(q, 400, BulkInvalidMessage(specs[bad], now),
                             IF BulkInvalidMessage(specs[bad], now) =
                                  "status must be one of pending, in-progress, completed"
                             THEN validStatuses ELSE << >>))
           ELSE Set(r, [q EXCEPT !.pc = "updateSubtasks.updateMany", !.ts = now])
    /\ UNCHANGED <<tasks, subtasks, now, deletedOk, calls>>

\* updateSubtasks: SubTask.updateMany({ taskId, is_deleted: false }, ...)
UpdateSubtasksUpdateMany(r) ==
    /\ At(r, "updateSubtasks.updateMany")
    /\ LET q     == Wrote(reqs[r])
           specs == q.body.subtasks
       IN  /\ subtasks' = SubTaskUpdateMany(subtasks, q.taskId, q.ts)
           /\ IF specs = << >>
              THEN Set(r, [q EXCEPT !.pc = "updateSubtasks.findByIdAndUpdate",
                                    !.ts = now])
              ELSE Set(r, [q EXCEPT !.pc = "updateSubtasks.save",
                                    !.doc = BulkSubTask(specs[1], q.taskId, now)])
    /\ UNCHANGED <<tasks, now, deletedOk, calls>>

\* updateSubtasks: newSubtask.save(), once per entry
UpdateSubtasksSave(r) ==
    /\ At(r, "updateSubtasks.save")
    /\ LET q     == Wrote(reqs[r])
           specs == q.body.subtasks
           ins   == SubTaskInsert(subtasks, q.doc)
           saved == Append(q.found, WithId(q.doc, ins.id))
       IN  IF SchemaValid(q.doc)
           THEN /\ subtasks' = ins.store
                /\ IF Len(saved) < Len(specs)
                   THEN Set(r, [q EXCEPT !.found = saved,
                                  !.doc = BulkSubTask(specs[Len(saved) + 1],
                                                      q.taskId, now)])
                   ELSE Set(r, [q EXCEPT !.found = saved, !.doc = NoDoc,
                                  !.pc = "updateSubtasks.findByIdAndUpdate",
                                  !.ts = now])
           ELSE /\ subtasks' = subtasks
                /\ Set(r, InternalError(q, "Internal Server Error"))
    /\ UNCHANGED <<tasks, now, deletedOk, calls>>

\* updateSubtasks: Task.findByIdAndUpdate(taskId, { subtasks: ids, updated_at })
UpdateSubtasksFindByIdAndUpdate(r) ==
    /\ At(r, "updateSubtasks.findByIdAndUpdate")
    /\ LET q == Wrote(reqs[r])
       IN  /\ tasks' = IF q.taskId \in TaskIds
                       THEN [tasks EXCEPT
                               ![q.taskId].subtasks =
                                   [i \in 1..Len(q.found) |-> q.found[i].id],
                               ![q.taskId].updated_at = q.ts]
                       ELSE tasks
           /\ Set(r, Reply(q, 200, "", q.found))
    /\ UNCHANGED <<subtasks, now, deletedOk, calls>>

\* Variant: the rejected call is awaited again, the handler stays where it is
StoreFailsRetry(r) ==
    /\ reqs[r].pc \notin {"idle", "done"}
    /\ ~reqs[r].failed
    /\ Set(r, [reqs[r] EXCEPT !.failed = TRUE])
    /\ UNCHANGED <<tasks, subtasks, now, deletedOk, calls>>

\* An awaited store call rejects: the call changes nothing, the exception
\* reaches the catch block of the handler, which answers 500
StoreFails(r) ==
    /\ reqs[r].pc \notin {"idle", "done"}
    /\ Set(r, InternalError(reqs[r], IF reqs[r].op = "getTasks"
                                     THEN "Internal Server Error."
                                     ELSE "Internal Server Error"))
    /\ UNCHANGED <<tasks, subtasks, now, deletedOk, calls>>

----------------------------------------------------------------------------
(* Inputs *)

Claims == {[userId |-> u, email |-> Emails[u]] : u \in Users}

\* The ids a request can name: those of the stored tasks, and an id that no
\* task ever gets
UnknownId == MaxTasks + 1

TaskIdParams == TaskIds \cup {UnknownId}

\* The date strings a request may carry: every instant of the clock and one
\* beyond it
DateInputs == {DateStrings[i] : i \in 1..(MaxTime + 2)}

Future == DateStrings[MaxTime + 2]

FieldBody(subject, deadline, status) ==
    [NoBody EXCEPT !.subject = subject, !.deadline = deadline, !.status = status]

BulkBody(specs) == [NoBody EXCEPT !.isArray = TRUE, !.subtasks = specs]

BulkSpec(subject, deadline, status) ==
    [subject |-> subject, deadline |-> deadline, status |-> status]

\* A few bodies of each kind: valid ones, and one for each validation rule
FewFieldBodies ==
    {FieldBody("X", Future, PENDING),
     FieldBody("Y", Future, COMPLETED),
     FieldBody("X", Future, Undefined),
     FieldBody(Undefined, DateStrings[1], PENDING),
     FieldBody("Y", Future, "archived")}

FewBulkBodies ==
    {NoBody,
     BulkBody(<< >>),
     BulkBody(<<BulkSpec("X", Future, Undefined)>>),
     BulkBody(<<BulkSpec("X", Future, COMPLETED), BulkSpec("Y", DateStrings[1], Undefined)>>)}

FewBodiesOf(op) ==
    CASE op \in {"createTask", "updateTask", "createSubTask"} -> FewFieldBodies
      [] op = "updateSubtasks" -> FewBulkBodies
      [] OTHER -> {NoBody}

ParamsOf(op) == IF op \in {"getTasks", "createTask"} THEN {0} ELSE TaskIdParams

\* Documents that the requests in flight may still insert
PendingTasks ==
    Cardinality({r \in ReqIds : reqs[r].pc = "createTask.save"})

PendingSubsOf(q) ==
    CASE q.pc \in {"createSubTask.findOne", "createSubTask.save"} -> 1
      [] q.pc \in {"updateSubtasks.findOne", "updateSubtasks.updateMany"} ->
             Len(q.body.subtasks)
      [] q.pc = "updateSubtasks.save" -> Len(q.body.subtasks) - Len(q.found)
      [] OTHER -> 0

RECURSIVE SumPending(_)
SumPending(n) == IF n = 0 THEN 0 ELSE PendingSubsOf(reqs[n]) + SumPending(n - 1)

Room(op, body) ==
    CASE op = "createTask"     -> Len(tasks) + PendingTasks < MaxTasks
      [] op = "createSubTask"  -> Len(subtasks) + SumPending(MaxReqs) < MaxSubs
      [] op = "updateSubtasks" ->
             Len(subtasks) + SumPending(MaxReqs) + Len(body.subtasks) <= MaxSubs
      [] OTHER -> TRUE

\* A new request takes the first idle slot, and the first slot whose request
\* has replied when none is idle
Free(r) ==
    IF \E s \in ReqIds : reqs[s].pc = "idle"
    THEN reqs[r].pc = "idle" /\ \A s \in 1..(r - 1) : reqs[s].pc # "idle"
    ELSE reqs[r].pc = "done" /\ \A s \in 1..(r - 1) : reqs[s].pc # "done"

----------------------------------------------------------------------------
(* Entry points *)

\* A request enters slot r
Enter(r, q) ==
    /\ Room(q.op, q.body)
    /\ calls' = calls + 1
    /\ Set(r, [q EXCEPT !.after = deletedOk,
                         !.pre = IF q.op \in {"createSubTask", "updateSubtasks"}
                                 THEN <<tasks, subtasks>> ELSE << >>])
    /\ UNCHANGED <<tasks, subtasks, now, deletedOk>>

\* An HTTP request to a task route
HttpRequest(r, op, auth, taskId, body) ==
    /\ Free(r)
    /\ calls < MaxCalls
    /\ Enter(r, Route([Idle EXCEPT !.op = op, !.auth = auth, !.taskId = taskId,
                                   !.body = body], now))

\* A handler entered with req.user = user
Invoke(r, op, user, taskId, body) ==
    Enter(r, StartHandler([Idle EXCEPT !.op = op, !.user = user,
                                       !.taskId = taskId, !.body = body], now))

Call(r, op, user, taskId, body) ==
    /\ Free(r)
    /\ calls < MaxCalls
    /\ Invoke(r, op, user, taskId, body)

Tick ==
    /\ now < MaxTime
    /\ now' = now + 1
    /\ UNCHANGED <<tasks, subtasks, reqs, deletedOk, calls>>

Step(r) ==
    \/ GetTasksFind(r)
    \/ GetTasksPopulate(r)
    \/ CreateTaskSave(r)
    \/ UpdateTaskFindOneAndUpdate(r)
    \/ DeleteTaskFindOneAndUpdate(r)
    \/ DeleteTaskUpdateMany(r)
    \/ GetSubtasksFindOne(r)
    \/ GetSubtasksFind(r)
    \/ CreateSubTaskFindOne(r)
    \/ CreateSubTaskSave(r)
    \/ CreateSubTaskPush(r)
    \/ UpdateSubtasksFindOne(r)
    \/ UpdateSubtasksUpdateMany(r)
    \/ UpdateSubtasksSave(r)
    \/ UpdateSubtasksFindByIdAndUpdate(r)

Init ==
    /\ tasks = << >>
    /\ subtasks = << >>
    /\ now = 0
    /\ reqs = [r \in ReqIds |-> Idle]
    /\ deletedOk = {}
    /\ calls = 0

\* The task handlers under concurrent requests, at one instant
Next ==
    \/ \E r \in ReqIds, op \in Ops, user \in Claims :
         \E taskId \in ParamsOf(op), body \in FewBodiesOf(op) :
            Call(r, op, user, taskId, body)
    \/ \E r \in ReqIds : Step(r)

Spec == Init /\ [][Next]_vars

\* The routes: every request passes the gate first
Headers ==
    {NoHeader, << <<"Bearer">> >>, Bearer(<<"garbage">>)}
      \cup {Bearer(generateToken(u, Emails[u])) : u \in Users}
      \cup {<<generateToken(u, Emails[u])>> : u \in Users}
      \cup {Bearer(jwtSign([userId |-> u, email |-> Emails[u]], "forged")) : u \in Users}

NextGate ==
    \E r \in ReqIds, op \in Ops, auth \in Headers :
      \E taskId \in ParamsOf(op), body \in FewBodiesOf(op) :
         HttpRequest(r, op, auth, taskId, body)

SpecGate == Init /\ [][NextGate]_vars

\* createTask with every body, and getTasks, one request after the other in
\* the first slot, as the clock advances
AllFieldBodies ==
    {FieldBody(s, d, st) :
        s \in {Undefined, "", "X", "Y"},
        d \in {Undefined, "", "not-a-date"} \cup DateInputs,
        st \in {Undefined, "", PENDING, IN_PROGRESS, COMPLETED, "archived"}}

Ready == reqs[1].pc \in {"idle", "done"} /\ calls < MaxCreateCalls

NextCreate ==
    \/ \E user \in Claims, body \in AllFieldBodies :
         Ready /\ Invoke(1, "createTask", user, 0, body)
    \/ \E user \in Claims :
         Ready /\ Invoke(1, "getTasks", user, 0, NoBody)
    \/ CreateTaskSave(1)
    \/ GetTasksFind(1)
    \/ Tick

SpecCreate == Init /\ [][NextCreate]_vars

\* Bulk replace with every input of up to two entries, one request after the
\* other in the first slot: a task and a subtask are created first, a read
\* may follow
BulkSpecs ==
    {BulkSpec(s, d, st) :
        s \in {Undefined, "X"},
        d \in {Undefined, DateStrings[1], Future},
        st \in {Undefined, "", COMPLETED, "archived"}}

\* Two entries that pass validation; the first has the content of the subtask
\* that createSubTask stores below
CoreSpecs == {BulkSpec("X", Future, COMPLETED), BulkSpec("Y", Future, Undefined)}

\* No input, no entry, one entry, and two entries of which one is a core entry
AllBulkBodies ==
    {NoBody, BulkBody(<< >>)}
      \cup {BulkBody(<<a>>) : a \in BulkSpecs}
      \cup {BulkBody(<<a, c>>) : a \in BulkSpecs, c \in CoreSpecs}
      \cup {BulkBody(<<c, a>>) : a \in BulkSpecs, c \in CoreSpecs}

ReadyBulk == reqs[1].pc \in {"idle", "done"} /\ calls < MaxBulkCalls

NextBulk ==
    \/ \E user \in Claims :
         ReadyBulk /\ Invoke(1, "createTask", user, 0, FieldBody("X", Future, PENDING))
    \/ \E user \in Claims, taskId \in TaskIdParams :
         ReadyBulk /\ Invoke(1, "createSubTask", user, taskId,
                             FieldBody("X", Future, COMPLETED))
    \/ \E user \in Claims, taskId \in TaskIdParams, body \in AllBulkBodies :
         ReadyBulk /\ Invoke(1, "updateSubtasks", user, taskId, body)
    \/ \E user \in Claims, taskId \in TaskIdParams :
         ReadyBulk /\ Invoke(1, "getSubtasks", user, taskId, NoBody)
    \/ CreateTaskSave(1)
    \/ CreateSubTaskFindOne(1)
    \/ CreateSubTaskSave(1)
    \/ CreateSubTaskPush(1)
    \/ UpdateSubtasksFindOne(1)
    \/ UpdateSubtasksUpdateMany(1)
    \/ UpdateSubtasksSave(1)
    \/ UpdateSubtasksFindByIdAndUpdate(1)
    \/ GetSubtasksFindOne(1)
    \/ GetSubtasksFind(1)

SpecBulk == Init /\ [][NextBulk]_vars

\* The handlers, one request after the other in the first slot, with store
\* calls that may fail, entered with the claims of an owner or with req.user
\* not set
ReadyFail == reqs[1].pc \in {"idle", "done"} /\ calls < MaxFailCalls

NextFail ==
    \/ \E op \in Ops, user \in Claims \cup {NoUser} :
         \E taskId \in ParamsOf(op), body \in FewBodiesOf(op) :
            ReadyFail /\ Invoke(1, op, user, taskId, body)
    \/ Step(1)
    \/ StoreFails(1)

SpecFail == Init /\ [][NextFail]_vars

\* The same, with the event loop resuming a handler whose awaited store call
\* has settled, by its result or by its rejection
SpecFailLive == SpecFail /\ WF_vars(Step(1) \/ StoreFails(1))

\* The handlers, one request after the other in the first slot
ReadySeq == reqs[1].pc \in {"idle", "done"} /\ calls < MaxSeqCalls

NextSeq ==
    \/ \E op \in Ops, user \in Claims :
         \E taskId \in ParamsOf(op), body \in FewBodiesOf(op) :
            ReadySeq /\ Invoke(1, op, user, taskId, body)
    \/ Step(1)

SpecSeq == Init /\ [][NextSeq]_vars

\* Verified claims that carry no owner id: a token signed with the server's
\* secret over a payload without userId
AnonClaims == {[userId |-> Undefined, email |-> Emails["A"]]}

\* The handlers, one request after the other in the first slot, entered with
\* the claims of owner A or with claims without owner id
NextAnon ==
    \/ \E op \in Ops, user \in {[userId |-> "A", email |-> Emails["A"]]} \cup AnonClaims :
         \E taskId \in ParamsOf(op), body \in FewBodiesOf(op) :
            ReadySeq /\ Invoke(1, op, user, taskId, body)
    \/ Step(1)

SpecAnon == Init /\ [][NextAnon]_vars

\* Concurrent requests of one owner with one body per operation
OneBodyOf(op) ==
    CASE op \in {"createTask", "createSubTask"} -> FieldBody("X", Future, PENDING)
      [] op = "updateTask"     -> FieldBody("Y", Undefined, COMPLETED)
      [] op = "updateSubtasks" -> BulkBody(<<BulkSpec("Y", Future, Undefined)>>)
      [] OTHER -> NoBody

NextRace ==
    \/ \E r \in ReqIds, op \in Ops : \E taskId \in ParamsOf(op) :
         /\ Free(r)
         /\ calls < MaxRaceCalls
         /\ Invoke(r, op, [userId |-> "A", email |-> Emails["A"]], taskId, OneBodyOf(op))
    \/ \E r \in ReqIds : Step(r)

SpecRace == Init /\ [][NextRace]_vars

\* updateTask with each field absent, empty, valid or invalid, one request
\* after the other in the first slot, after a task and a subtask were
\* created, as the clock advances
UpdateBodies ==
    {FieldBody(s, d, st) :
        s \in {Undefined, "", "Y"},
        d \in {Undefined, "", "not-a-date", DateStrings[2]},
        st \in {Undefined, "", COMPLETED, "archived"}}

ReadyUpdate == reqs[1].pc \in {"idle", "done"} /\ calls < MaxUpdateCalls

NextUpdate ==
    \/ \E user \in Claims :
         ReadyUpdate /\ Invoke(1, "createTask", user, 0, FieldBody("X", Future, PENDING))
    \/ \E user \in Claims, taskId \in TaskIdParams :
         ReadyUpdate /\ Invoke(1, "createSubTask", user, taskId,
                               FieldBody("X", Future, PENDING))
    \/ \E user \in Claims, taskId \in TaskIdParams, body \in UpdateBodies :
         ReadyUpdate /\ Invoke(1, "updateTask", user, taskId, body)
    \/ CreateTaskSave(1)
    \/ CreateSubTaskFindOne(1)
    \/ CreateSubTaskSave(1)
    \/ CreateSubTaskPush(1)
    \/ UpdateTaskFindOneAndUpdate(1)
    \/ Tick

SpecUpdate == Init /\ [][NextUpdate]_vars

\* createTask, createSubTask and the two reads, one request at a time, in
\* alternating slots: the answer of the previous request is kept while the
\* next one runs
Quiet == \A s \in ReqIds : reqs[s].pc \in {"idle", "done"}

PairOps == {"createTask", "createSubTask", "getSubtasks", "getTasks"}

PairBodiesOf(op) ==
    CASE op = "createTask"    -> {FieldBody("X", Future, PENDING)}
      [] op = "createSubTask" -> {FieldBody("X", Future, Undefined),
                                  FieldBody("Y", Future, COMPLETED)}
      [] OTHER -> {NoBody}

NextPair ==
    \/ \E r \in ReqIds, op \in PairOps, user \in Claims :
         \E taskId \in ParamsOf(op), body \in PairBodiesOf(op) :
            /\ Quiet
            /\ Free(r)
            /\ calls < MaxPairCalls
            /\ Invoke(r, op, user, taskId, body)
    \/ \E r \in ReqIds :
         \/ CreateTaskSave(r)
         \/ CreateSubTaskFindOne(r)
         \/ CreateSubTaskSave(r)
         \/ CreateSubTaskPush(r)
         \/ GetSubtasksFindOne(r)
         \/ GetSubtasksFind(r)
         \/ GetTasksFind(r)
         \/ GetTasksPopulate(r)

SpecPair == Init /\ [][NextPair]_vars

\* createTask, createSubTask, the bulk replace and deleteTask, one request
\* after the other in the first slot, as the clock advances
CascadeBodiesOf(op) ==
    CASE op = "createTask"     -> {FieldBody("X", Future, PENDING)}
      [] op = "createSubTask"  -> {FieldBody("X", Future, Undefined)}
      [] op = "updateSubtasks" -> {BulkBody(<< >>),
                                   BulkBody(<<BulkSpec("Y", Future, COMPLETED)>>)}
      [] OTHER -> {NoBody}

ReadyCascade == reqs[1].pc \in {"idle", "done"} /\ calls < MaxCascadeCalls

NextCascade ==
    \/ \E op \in {"createTask", "createSubTask", "updateSubtasks", "deleteTask"},
          user \in Claims :
         \E taskId \in ParamsOf(op), body \in CascadeBodiesOf(op) :
            ReadyCascade /\ Invoke(1, op, user, taskId, body)
    \/ CreateTaskSave(1)
    \/ CreateSubTaskFindOne(1)
    \/ CreateSubTaskSave(1)
    \/ CreateSubTaskPush(1)
    \/ UpdateSubtasksFindOne(1)
    \/ UpdateSubtasksUpdateMany(1)
    \/ UpdateSubtasksSave(1)
    \/ UpdateSubtasksFindByIdAndUpdate(1)
    \/ DeleteTaskFindOneAndUpdate(1)
    \/ DeleteTaskUpdateMany(1)
    \/ Tick

SpecCascade == Init /\ [][NextCascade]_vars

\* createTask, createSubTask, deleteTask and the two reads, one request at a
\* time in alternating slots, with store calls that may fail
NextStop ==
    \/ \E r \in ReqIds, op \in PairOps \cup {"deleteTask"}, user \in Claims :
         \E taskId \in ParamsOf(op), body \in PairBodiesOf(op) :
            /\ Quiet
            /\ Free(r)
            /\ calls < MaxStopCalls
            /\ Invoke(r, op, user, taskId, body)
    \/ \E r \in ReqIds :
         \/ CreateTaskSave(r)
         \/ CreateSubTaskFindOne(r)
         \/ CreateSubTaskSave(r)
         \/ CreateSubTaskPush(r)
         \/ DeleteTaskFindOneAndUpdate(r)
         \/ DeleteTaskUpdateMany(r)
         \/ GetSubtasksFindOne(r)
         \/ GetSubtasksFind(r)
         \/ GetTasksFind(r)
         \/ GetTasksPopulate(r)
         \/ StoreFails(r)

SpecStop == Init /\ [][NextStop]_vars

----------------------------------------------------------------------------
(* Properties of the access gate, checked under SpecGate *)

Arrived(r) == reqs[r].routed /\ reqs[r].pc # "idle"

IssuedTokens == {generateToken(u, Emails[u]) : u \in Users}

ClaimsOf(token) == [userId |-> token[2], email |-> token[3]]

\* C1: a request whose Authorization header is 'Bearer <token>', the token
\* issued by generateToken under the server's secret, leaves the gate with
\* the decoded claims as req.user and exactly one call of next, and the gate
\* has sent no response.
C1_IssuedTokenPasses ==
    \A r \in ReqIds :
      Arrived(r) /\ Len(reqs[r].auth) = 2 /\ reqs[r].auth[1] = <<"Bearer">>
        /\ reqs[r].auth[2] \in IssuedTokens
      => /\ reqs[r].user = ClaimsOf(reqs[r].auth[2])
         /\ reqs[r].next = 1
         /\ reqs[r].sentBy # "gate"
         /\ ~reqs[r].threw

\* C2: a request without Authorization header is answered by the gate with
\* 403 'Unauthorized Access'; next is never called, no handler is entered
\* and no store call is made for it.
C2_MissingHeaderDenied ==
    \A r \in ReqIds :
      Arrived(r) /\ reqs[r].auth = NoHeader
      => /\ reqs[r].pc = "done"
         /\ reqs[r].status = 403
         /\ reqs[r].message = "Unauthorized Access"
         /\ reqs[r].sent = 1 /\ reqs[r].sentBy = "gate"
         /\ reqs[r].next = 0 /\ ~reqs[r].handler
         /\ reqs[r].reads = 0 /\ reqs[r].writes = 0
         /\ tasks = << >> /\ subtasks = << >>

C2_Witness ==
    \E r \in ReqIds :
      /\ Arrived(r) /\ reqs[r].auth = NoHeader
      /\ reqs[r].status = 403 /\ reqs[r].sentBy = "gate"
      /\ reqs[r].op = "deleteTask"

\* The token of a present header does not verify under the server's secret
FailsVerification(auth) ==
    auth # NoHeader /\ jwtVerify(SplitSecond(auth), JWT_SECRET).err

\* C3: a request whose header is present but whose token fails verification
\* is answered with the response given for a missing header, 403
\* 'Unauthorized Access', and next is never called.
C3_BadTokenDenied ==
    \A r \in ReqIds :
      Arrived(r) /\ FailsVerification(reqs[r].auth)
      => /\ reqs[r].status = 403
         /\ reqs[r].message = "Unauthorized Access"
         /\ reqs[r].sentBy = "gate"
         /\ reqs[r].next = 0

\* C4: a handler entered through a route was preceded, in the same request,
\* by a successful verification and one call of next; a request the gate
\* stopped has made no store call, and the gate leaves the store as it was.
C4_GateBeforeHandler ==
    \A r \in ReqIds :
      Arrived(r)
      => /\ reqs[r].handler => reqs[r].verified /\ reqs[r].next = 1
         /\ reqs[r].reads + reqs[r].writes > 0 => reqs[r].verified
         /\ ~reqs[r].handler
              => /\ reqs[r].reads = 0 /\ reqs[r].writes = 0
                 /\ reqs[r].pc = "done"
         /\ tasks = << >> /\ subtasks = << >>

\* A request that carries an issued token has been through the gate: the
\* gate stopped it, no handler was entered and no store call was made
C4_Witness ==
    \E r \in ReqIds :
      /\ Arrived(r) /\ reqs[r].op = "updateSubtasks"
      /\ Len(reqs[r].auth) = 2 /\ reqs[r].auth[2] \in IssuedTokens
      /\ reqs[r].pc = "done" /\ ~reqs[r].handler /\ ~reqs[r].verified
      /\ reqs[r].reads = 0 /\ reqs[r].writes = 0

----------------------------------------------------------------------------
(* Properties of the task handlers *)

Done(r) == reqs[r].pc = "done" /\ reqs[r].handler

TaskIdOps == {"updateTask", "deleteTask", "getSubtasks", "createSubTask",
              "updateSubtasks"}

\* C5: getTasks called by owner A returns no task created by another owner,
\* and getSubtasks called by A returns no subtask whose parent task was
\* created by another owner, whatever ran before or runs alongside.
C5_ReadIsolation ==
    \A r \in ReqIds :
      Done(r) /\ reqs[r].status = 200
      => /\ reqs[r].op = "getTasks"
              => \A k \in 1..Len(reqs[r].data) :
                    reqs[r].data[k].createdBy = reqs[r].user.userId
         /\ reqs[r].op = "getSubtasks"
              => \A k \in 1..Len(reqs[r].data) :
                    /\ reqs[r].data[k].taskId \in TaskIds
                    /\ tasks[reqs[r].data[k].taskId].createdBy = reqs[r].user.userId

\* getTasks has returned a task of its caller while an active task of
\* another owner is stored
C5_Witness ==
    \E r \in ReqIds :
      /\ Done(r) /\ reqs[r].op = "getTasks" /\ reqs[r].status = 200
      /\ Len(reqs[r].data) = 1
      /\ \E i \in TaskIds : /\ tasks[i].createdBy # reqs[r].user.userId
                            /\ ~tasks[i].is_deleted

\* C6: an operation that takes a task id and finds no active task of the
\* caller under it answers 404 'Task not found' whether the id is unknown,
\* the task belongs to another owner or the caller's task is soft-deleted;
\* it never answers 403, and a body rejected before the lookup is rejected
\* without any store call.
C6_NotFoundUniform ==
    \A r \in ReqIds :
      Done(r) /\ reqs[r].op \in TaskIdOps /\ reqs[r].user.userId \in Users
      => /\ reqs[r].miss \in {"absent", "foreign", "deleted"}
              => /\ reqs[r].status = 404
                 /\ reqs[r].message = "Task not found"
                 /\ reqs[r].data = << >>
                 /\ reqs[r].writes <= 1
         /\ reqs[r].status # 403
         /\ reqs[r].status = 404 => reqs[r].miss # "none"
         /\ reqs[r].status = 400 /\ reqs[r].op # "updateSubtasks"
              => reqs[r].reads = 0 /\ reqs[r].writes = 0
         /\ reqs[r].status = 400 /\ reqs[r].op = "updateSubtasks"
              => reqs[r].miss = "none"

\* createSubTask on the caller's own soft-deleted task was answered 404
C6_Witness ==
    \E r \in ReqIds :
      /\ Done(r) /\ reqs[r].op = "createSubTask"
      /\ reqs[r].miss = "deleted" /\ reqs[r].status = 404

\* The rule of createTask, stated on the request: a non-empty subject, a
\* deadline that is a date strictly after the instant t, a status of the enum
ValidCreate(body, t) ==
    /\ body.subject \notin {Undefined, ""}
    /\ \E i \in 1..Len(DateStrings) : body.deadline = DateStrings[i] /\ i - 1 > t
    /\ body.status \in {"pending", "in-progress", "completed"}

\* C7: createTask answers 201 and stores one new task exactly when the body
\* is valid at the instant it is checked; otherwise it answers 400 and the
\* store is unchanged.
C7_CreateIffValid ==
    [][\A r \in ReqIds :
         reqs'[r].op = "createTask" /\ reqs'[r].pc = "done" /\ reqs'[r] # reqs[r]
         => IF ValidCreate(reqs'[r].body, reqs'[r].t0)
            THEN /\ reqs'[r].status = 201
                 /\ Len(tasks') = Len(tasks) + 1
                 /\ subtasks' = subtasks
            ELSE /\ reqs'[r].status = 400
                 /\ tasks' = tasks /\ subtasks' = subtasks]_vars

\* createTask succeeded with a deadline one instant ahead, after the clock
\* had advanced
C7_Witness ==
    \E r \in ReqIds :
      /\ Done(r) /\ reqs[r].op = "createTask" /\ reqs[r].status = 201
      /\ reqs[r].t0 = 1 /\ NewDate(reqs[r].body.deadline) = 2
      /\ Len(tasks) = 2

\* C8: the task stored by a successful createTask of owner U has createdBy
\* U, no subtask reference, is_deleted false and the subject and status of
\* the request; every other task and every subtask is left as it was.
C8_CreatedTask ==
    [][\A r \in ReqIds :
         reqs[r].pc = "createTask.save" /\ reqs'[r].pc = "done"
           /\ reqs'[r].status = 201
         => LET n == Len(tasks')
            IN  /\ n = Len(tasks) + 1
                /\ tasks'[n].createdBy = reqs[r].user.userId
                /\ tasks'[n].subtasks = << >>
                /\ tasks'[n].is_deleted = FALSE
                /\ tasks'[n].subject = reqs[r].body.subject
                /\ tasks'[n].status = reqs[r].body.status
                /\ \A i \in 1..Len(tasks) : tasks'[i] = tasks[i]
                /\ subtasks' = subtasks
                /\ reqs'[r].data = <<WithId(tasks'[n], n)>>]_vars

\* A second task was created with status completed while a subtask of the
\* first task is stored
C8_Witness ==
    \E r \in ReqIds :
      /\ Done(r) /\ reqs[r].op = "createTask" /\ reqs[r].status = 201
      /\ reqs[r].body.status = COMPLETED
      /\ Len(tasks) = 2 /\ Len(subtasks) = 1
      /\ tasks[2].status = COMPLETED /\ tasks[1].subtasks # << >>

\* The task under id as createTask request c stored it, untouched since
Untouched(c, id) ==
    /\ id \in TaskIds
    /\ WithId(tasks[id], id) = reqs[c].data[1]
    /\ \A s \in SubIds : subtasks[s].taskId # id

\* The documents getTasks request q holds after its find step
Listed(q) == IF q.pc = "done" THEN q.data ELSE q.found

\* C9: when createTask of owner U has succeeded and no operation has touched
\* the new task, the find of a getTasks of U lists an entry with the subject
\* and status of the createTask request, and the populate step keeps it.
C9_RoundTrip ==
    [][/\ \A r, c \in ReqIds :
            /\ reqs[c].pc = "done" /\ reqs[c].op = "createTask"
            /\ reqs[c].status = 201
            /\ reqs[r].pc = "getTasks.find" /\ reqs'[r] # reqs[r]
            /\ reqs[r].user.userId = reqs[c].user.userId
            /\ Untouched(c, reqs[c].data[1].id)
            => \E k \in 1..Len(Listed(reqs'[r])) :
                  /\ Listed(reqs'[r])[k].id = reqs[c].data[1].id
                  /\ Listed(reqs'[r])[k].subject = reqs[c].body.subject
                  /\ Listed(reqs'[r])[k].status = reqs[c].body.status
       /\ \A r \in ReqIds :
            reqs[r].pc = "getTasks.populate" /\ reqs'[r].pc = "done"
            => /\ reqs'[r].status = 200
               /\ Len(reqs'[r].data) = Len(reqs[r].found)
               /\ \A k \in 1..Len(reqs[r].found) :
                     /\ reqs'[r].data[k].id = reqs[r].found[k].id
                     /\ reqs'[r].data[k].subject = reqs[r].found[k].subject
                     /\ reqs'[r].data[k].status = reqs[r].found[k].status]_vars

\* getTasks has answered with the untouched task of subject X and status
\* pending that its caller created
C9_Witness ==
    \E r \in ReqIds :
      /\ Done(r) /\ reqs[r].op = "getTasks" /\ reqs[r].status = 200
      /\ \E k \in 1..Len(reqs[r].data) :
            /\ reqs[r].data[k].subject = "X"
            /\ reqs[r].data[k].status = PENDING
            /\ reqs[r].data[k].createdBy = reqs[r].user.userId
            /\ reqs[r].data[k] = WithId(tasks[reqs[r].data[k].id], reqs[r].data[k].id)
            /\ reqs[r].data[k].subtasks = << >>

\* C10: once deleteTask(T) has answered with success, every stored subtask
\* whose taskId is T is soft-deleted, also when createSubTask or
\* updateSubtasks requests for T are in flight.
C10_CascadeInvariant ==
    \A id \in deletedOk :
      \A s \in SubIds : subtasks[s].taskId = id => subtasks[s].is_deleted

----------------------------------------------------------------------------
(* After a confirmed deletion *)

\* The request arrived after the deletion of its target had been confirmed
Gone(q) == q.op \in TaskIdOps /\ q.taskId \in q.after

InFlight(q) == q.pc \notin {"idle", "done"}

\* The body passes the checks a handler makes before it looks the task up:
\* updateTask checks a supplied deadline and a supplied status, createSubTask
\* checks subject, deadline and a supplied status
PassesBodyChecks(q) ==
    LET b      == q.body
        future == \E i \in 1..Len(DateStrings) :
                     b.deadline = DateStrings[i] /\ i - 1 > q.t0
        absent(v) == v \in {Undefined, ""}
        statusOk  == absent(b.status)
                       \/ b.status \in {"pending", "in-progress", "completed"}
    IN  CASE q.op = "updateTask"    -> (absent(b.deadline) \/ future) /\ statusOk
          [] q.op = "createSubTask" -> ~absent(b.subject) /\ future /\ statusOk
          [] OTHER -> TRUE

\* The original statement of C11: every operation on T invoked after the
\* confirmed deletion of T answers 404, the body of createSubTask being
\* valid, whatever the body of the others; it changes nothing in the store,
\* and getTasks no longer lists T.
C11_AfterDeleteAnyBody ==
    [][\A r \in ReqIds :
         LET q == reqs[r]
             p == reqs'[r]
         IN  /\ Gone(q) /\ InFlight(q) /\ p # q
                  => tasks' = tasks /\ subtasks' = subtasks
             /\ Gone(p) /\ p.pc = "done" /\ p # q
                  /\ (p.op = "createSubTask" => PassesBodyChecks(p))
                  => p.status = 404 /\ p.message = "Task not found"
             /\ p.op = "getTasks" /\ p.pc = "done" /\ p # q /\ p.status = 200
                  => \A k \in 1..Len(p.data) : p.data[k].id \notin p.after]_vars

\* C11 (amended): after deleteTask(T) has answered with success, every
\* deleteTask, getSubtasks and updateSubtasks on T invoked afterwards by any
\* caller, and every updateTask and createSubTask on T whose body passes
\* validation, answers 404 'Task not found'; none of these requests changes a
\* task or a subtask, whatever its body, and a getTasks invoked afterwards
\* does not list T.
C11_AfterDelete ==
    [][\A r \in ReqIds :
         LET q == reqs[r]
             p == reqs'[r]
         IN  /\ Gone(q) /\ InFlight(q) /\ p # q
                  => tasks' = tasks /\ subtasks' = subtasks
             /\ Gone(p) /\ p.pc = "done" /\ p # q /\ PassesBodyChecks(p)
                  => p.status = 404 /\ p.message = "Task not found"
             /\ p.op = "getTasks" /\ p.pc = "done" /\ p # q /\ p.status = 200
                  => \A k \in 1..Len(p.data) : p.data[k].id \notin p.after]_vars

\* A second deleteTask of the owner, invoked after the first was confirmed,
\* was answered 404
C11_Witness ==
    \E r \in ReqIds :
      /\ Done(r) /\ reqs[r].op = "deleteTask" /\ Gone(reqs[r])
      /\ tasks[reqs[r].taskId].createdBy = reqs[r].user.userId
      /\ reqs[r].status = 404 /\ reqs[r].writes = 1

----------------------------------------------------------------------------
(* Bulk replace, checked under SpecBulk *)

\* The rule of a bulk entry, stated on the request: a subject or a deadline
\* is missing, the deadline is not a date strictly after the instant t, or a
\* supplied status is outside the enum
InvalidEntry(spec, t) ==
    \/ spec.subject \in {Undefined, ""}
    \/ spec.deadline \in {Undefined, ""}
    \/ ~\E i \in 1..Len(DateStrings) : spec.deadline = DateStrings[i] /\ i - 1 > t
    \/ spec.status \notin {Undefined, "", "pending", "in-progress", "completed"}

\* The active subtasks of task id in a subtask collection
ActiveOf(store, id) ==
    {s \in 1..Len(store) : store[s].taskId = id /\ ~store[s].is_deleted}

\* C12: an updateSubtasks on an active task of its caller whose input has an
\* invalid entry, at whatever position, answers 400 without a store write:
\* every task and subtask is as it was when the request arrived, and so is the
\* set of active subtasks of the parent.
C12_BulkValidationAtomic ==
    \A r \in ReqIds :
      LET q == reqs[r]
      IN  Done(r) /\ q.op = "updateSubtasks" /\ q.miss = "none" /\ q.reads > 0
            /\ q.body.isArray
            /\ (\E i \in 1..Len(q.body.subtasks) :
                   InvalidEntry(q.body.subtasks[i], q.t0))
          => /\ q.status = 400
             /\ q.writes = 0
             /\ <<tasks, subtasks>> = q.pre
             /\ ActiveOf(subtasks, q.taskId) = ActiveOf(q.pre[2], q.taskId)

\* A bulk replace whose second entry alone is invalid was answered 400 while
\* the parent has an active subtask
C12_Witness ==
    \E r \in ReqIds :
      LET q == reqs[r]
      IN  /\ Done(r) /\ q.op = "updateSubtasks" /\ q.status = 400
          /\ Len(q.body.subtasks) = 2
          /\ ~InvalidEntry(q.body.subtasks[1], q.t0)
          /\ InvalidEntry(q.body.subtasks[2], q.t0)
          /\ ActiveOf(subtasks, q.taskId) # {}

\* The status a bulk entry is stored with
EntryStatus(spec) ==
    IF spec.status \in {Undefined, ""} THEN "pending" ELSE spec.status

\* The time value of a date string of the clock
DateOf(dateString) ==
    CHOOSE t \in 0..(Len(DateStrings) - 1) : DateStrings[t + 1] = dateString

\* The store is what the bulk replace q makes of the store it found: the
\* subtasks of its task that were active are soft-deleted, one subtask per
\* entry is appended in input order, the reference list of the task is the
\* sequence of the new ids, and nothing else differs
Replaced(q) ==
    LET T     == q.taskId
        specs == q.body.subtasks
        n     == Len(specs)
        old   == q.pre[2]
        m     == Len(old)
    IN  /\ Len(subtasks) = m + n
        /\ ActiveOf(subtasks, T) = (m + 1)..(m + n)
        /\ \A i \in 1..n :
             /\ subtasks[m + i].subject = specs[i].subject
             /\ subtasks[m + i].deadline = DateOf(specs[i].deadline)
             /\ subtasks[m + i].status = EntryStatus(specs[i])
             /\ subtasks[m + i].taskId = T
        /\ \A s \in 1..m :
             IF s \in ActiveOf(old, T)
             THEN subtasks[s] = [old[s] EXCEPT !.is_deleted = TRUE,
                                               !.updated_at = subtasks[s].updated_at]
             ELSE subtasks[s] = old[s]
        /\ tasks[T].subtasks = [i \in 1..n |-> m + i]
        /\ Len(tasks) = Len(q.pre[1])
        /\ \A t \in TaskIds :
             tasks[t] = IF t = T
                        THEN [q.pre[1][t] EXCEPT !.subtasks = tasks[T].subtasks,
                                                 !.updated_at = tasks[T].updated_at]
                        ELSE q.pre[1][t]

\* C13: when an updateSubtasks on task T with n valid entries has answered
\* 200 and nothing else was in flight, the active subtasks of T are exactly n
\* new subtasks, one per entry in input order, with the entry's subject and
\* deadline and its status or pending; every subtask of T that was active on
\* arrival is soft-deleted; the reference list of T is the sequence of the n
\* new ids; the answer carries the n new subtasks; nothing else has changed.
C13_BulkReplace ==
    \A r \in ReqIds :
      LET q == reqs[r]
          m == Len(q.pre[2])
      IN  Done(r) /\ q.op = "updateSubtasks" /\ q.status = 200
          => /\ \A i \in 1..Len(q.body.subtasks) :
                  ~InvalidEntry(q.body.subtasks[i], q.t0)
             /\ Replaced(q)
             /\ Len(q.data) = Len(q.body.subtasks)
             /\ \A i \in 1..Len(q.data) :
                  q.data[i] = WithId(subtasks[m + i], m + i)

\* A bulk replace with two entries, the second without status, has answered
\* 200 on a task that had an active subtask
C13_Witness ==
    \E r \in ReqIds :
      LET q == reqs[r]
      IN  /\ Done(r) /\ q.op = "updateSubtasks" /\ q.status = 200
          /\ Len(q.body.subtasks) = 2
          /\ q.body.subtasks[2].status = Undefined
          /\ ActiveOf(q.pre[2], q.taskId) # {}
          /\ Len(tasks[q.taskId].subtasks) = 2

\* C14: every subtask returned by a successful updateSubtasks carries an id
\* that no subtask, active or soft-deleted, had when the request arrived, and
\* no id is returned twice; this holds when an entry has the subject, deadline
\* and status of a subtask that was active.
C14_FreshIds ==
    \A r \in ReqIds :
      LET q == reqs[r]
      IN  Done(r) /\ q.op = "updateSubtasks" /\ q.status = 200
          => /\ \A k \in 1..Len(q.data) : q.data[k].id \notin 1..Len(q.pre[2])
             /\ \A j, k \in 1..Len(q.data) : q.data[j].id = q.data[k].id => j = k

\* A returned subtask has the content of a subtask that was active on arrival
C14_Witness ==
    \E r \in ReqIds :
      LET q == reqs[r]
      IN  /\ Done(r) /\ q.op = "updateSubtasks" /\ q.status = 200
          /\ \E k \in 1..Len(q.data), s \in ActiveOf(q.pre[2], q.taskId) :
                /\ q.data[k].subject = q.pre[2][s].subject
                /\ q.data[k].deadline = q.pre[2][s].deadline
                /\ q.data[k].status = q.pre[2][s].status
                /\ q.data[k].id # s

----------------------------------------------------------------------------
(* Store failures, checked under SpecFail *)

\* C15: an updateSubtasks that has answered, a store call having failed or
\* not, has either applied the whole replacement or left every task and
\* subtask as it found them.
C15_BulkAllOrNothing ==
    \A r \in ReqIds :
      LET q == reqs[r]
      IN  Done(r) /\ q.op = "updateSubtasks"
          => \/ <<tasks, subtasks>> = q.pre
             \/ q.body.isArray /\ q.miss = "none" /\ Replaced(q)

----------------------------------------------------------------------------
(* Reads *)

\* The ids of a sequence of documents
IdsOf(docs) == {docs[k].id : k \in 1..Len(docs)}

\* C16: a getTasks of owner A that has answered 200, no other request being
\* in flight, lists each active task of A once and no other task, each as it
\* is stored, and attaches to each listed task each of its active subtasks
\* once, as stored, and no other subtask.
C16_GetTasksExact ==
    \A r \in ReqIds :
      LET q == reqs[r]
      IN  Done(r) /\ q.op = "getTasks" /\ q.status = 200
          => /\ IdsOf(q.data) = {t \in TaskIds : /\ tasks[t].createdBy = q.user.userId
                                                 /\ ~tasks[t].is_deleted}
             /\ Len(q.data) = Cardinality(IdsOf(q.data))
             /\ \A k \in 1..Len(q.data) :
                  LET d == q.data[k]
                  IN  /\ [d EXCEPT !.subtasks = << >>]
                         = WithId([tasks[d.id] EXCEPT !.subtasks = << >>], d.id)
                      /\ IdsOf(d.subtasks) = ActiveOf(subtasks, d.id)
                      /\ Len(d.subtasks) = Cardinality(IdsOf(d.subtasks))
                      /\ \A j \in 1..Len(d.subtasks) :
                           d.subtasks[j] = WithId(subtasks[d.subtasks[j].id],
                                                  d.subtasks[j].id)

\* getTasks has listed one task with its one active subtask attached while a
\* soft-deleted subtask of that task is stored
C16_Witness ==
    \E r \in ReqIds :
      LET q == reqs[r]
      IN  /\ Done(r) /\ q.op = "getTasks" /\ q.status = 200
          /\ Len(q.data) = 1 /\ Len(q.data[1].subtasks) = 1
          /\ \E s \in SubIds : subtasks[s].taskId = q.data[1].id /\ subtasks[s].is_deleted

\* C17: at the step that reads the subtasks, for getSubtasks and for the
\* nested list of getTasks, no returned subtask is soft-deleted and none has a
\* soft-deleted parent task, whatever deleteTask and updateSubtasks requests
\* run alongside.
C17_ReadsOnlyLive ==
    [][\A r \in ReqIds :
         LET q    == reqs[r]
             p    == reqs'[r]
             live(d) == /\ ~subtasks[d.id].is_deleted
                        /\ ~tasks[d.taskId].is_deleted
         IN  /\ q.pc = "getSubtasks.find" /\ p.pc = "done" /\ p.status = 200
                  => \A k \in 1..Len(p.data) : live(p.data[k])
             /\ q.pc = "getTasks.populate" /\ p.pc = "done" /\ p.status = 200
                  => \A k \in 1..Len(p.data) :
                       \A j \in 1..Len(p.data[k].subtasks) :
                          live(p.data[k].subtasks[j])]_vars

----------------------------------------------------------------------------
(* updateTask, checked under SpecUpdate *)

\* The body carries the field: its key is present
Supplied(v) == v # Undefined

\* C18: the step by which updateTask succeeds changes, of the task, only
\* fields that the body supplies and updated_at: a subject, deadline or
\* status that is not supplied keeps its stored value, a supplied subject or
\* status is stored, and createdBy, the reference list, is_deleted and
\* created_at keep their values; no other task and no subtask changes.
C18_UpdateFrame ==
    [][\A r \in ReqIds :
         LET q == reqs[r]
             p == reqs'[r]
             T == q.taskId
             b == q.body
         IN  q.pc = "updateTask.findOneAndUpdate" /\ p.pc = "done" /\ p.status = 200
             => /\ T \in TaskIds /\ Len(tasks') = Len(tasks)
                /\ ~Supplied(b.subject)  => tasks'[T].subject = tasks[T].subject
                /\ ~Supplied(b.deadline) => tasks'[T].deadline = tasks[T].deadline
                /\ ~Supplied(b.status)   => tasks'[T].status = tasks[T].status
                /\ Supplied(b.subject)   => tasks'[T].subject = b.subject
                /\ Supplied(b.status)    => tasks'[T].status = b.status
                /\ tasks'[T].createdBy = tasks[T].createdBy
                /\ tasks'[T].subtasks = tasks[T].subtasks
                /\ tasks'[T].is_deleted = tasks[T].is_deleted
                /\ tasks'[T].created_at = tasks[T].created_at
                /\ \A t \in TaskIds : t # T => tasks'[t] = tasks[t]
                /\ subtasks' = subtasks
                /\ p.data = <<WithId(tasks'[T], T)>>]_vars

\* updateTask with a status alone has succeeded, after the clock advanced,
\* on a task that references a subtask, and the stored subject is kept
C18_Witness ==
    \E r \in ReqIds :
      LET q == reqs[r]
      IN  /\ Done(r) /\ q.op = "updateTask" /\ q.status = 200
          /\ q.body.subject = Undefined /\ q.body.deadline = Undefined
          /\ q.body.status = COMPLETED
          /\ tasks[q.taskId].subject = "X" /\ tasks[q.taskId].status = COMPLETED
          /\ tasks[q.taskId].deadline = NewDate(Future)
          /\ tasks[q.taskId].subtasks # << >>
          /\ tasks[q.taskId].updated_at = 1 /\ tasks[q.taskId].created_at = 0

\* C19: an updateTask whose body supplies a deadline that is not a date
\* strictly after the present instant, or a status outside the enum, is
\* answered 400 (with the valid statuses when the status is at fault) without
\* a store call, whether or not its task matches.
C19_UpdateRejectsInvalid ==
    \A r \in ReqIds :
      LET q == reqs[r]
          b == q.body
          badDeadline == /\ Supplied(b.deadline)
                         /\ ~\E i \in 1..Len(DateStrings) :
                               b.deadline = DateStrings[i] /\ i - 1 > q.t0
          badStatus   == /\ Supplied(b.status)
                         /\ b.status \notin {"pending", "in-progress", "completed"}
      IN  Done(r) /\ q.op = "updateTask" /\ (badDeadline \/ badStatus)
          => /\ q.status = 400
             /\ q.reads = 0 /\ q.writes = 0
             /\ ~badDeadline => q.data = <<"pending", "in-progress", "completed">>

----------------------------------------------------------------------------
(* createSubTask, checked under SpecPair *)

\* C20: the step by which a createSubTask on task T answers 201, no other
\* request being in flight, leaves the store it found with one more subtask,
\* which has taskId T, is_deleted false, the subject of the request and its
\* status, or pending when none was supplied, and with the id of that subtask
\* appended once at the end of T's reference list; a getSubtasks(T) and a
\* getTasks of the same caller that follow return that subtask, the latter in
\* the nested list of T.
C20_CreateSubTask ==
    [][/\ \A r \in ReqIds :
            LET q  == reqs[r]
                p  == reqs'[r]
                T  == q.taskId
                id == p.data[1].id
            IN  q.pc = "createSubTask.push" /\ p.pc = "done" /\ p.status = 201
                => /\ Len(subtasks') = Len(q.pre[2]) + 1
                   /\ id = Len(subtasks')
                   /\ \A s \in 1..Len(q.pre[2]) : subtasks'[s] = q.pre[2][s]
                   /\ subtasks'[id].taskId = T
                   /\ subtasks'[id].is_deleted = FALSE
                   /\ subtasks'[id].subject = q.body.subject
                   /\ subtasks'[id].status =
                        (IF Supplied(q.body.status) THEN q.body.status ELSE "pending")
                   /\ p.data = <<WithId(subtasks'[id], id)>>
                   /\ tasks'[T].subtasks = Append(q.pre[1][T].subtasks, id)
                   /\ \A j \in 1..Len(q.pre[1][T].subtasks) : q.pre[1][T].subtasks[j] # id
                   /\ tasks' = [q.pre[1] EXCEPT ![T].subtasks = tasks'[T].subtasks]
       /\ \A r, c \in ReqIds :
            LET q == reqs[r]
                p == reqs'[r]
                n == reqs[c]
            IN  /\ n.pc = "done" /\ n.op = "createSubTask" /\ n.status = 201
                /\ q.user = n.user /\ p # q /\ p.pc = "done"
                => /\ q.op = "getSubtasks" /\ q.taskId = n.taskId
                        => /\ p.status = 200
                           /\ \E k \in 1..Len(p.data) : p.data[k] = n.data[1]
                   /\ q.op = "getTasks"
                        => /\ p.status = 200
                           /\ \E k \in 1..Len(p.data) :
                                /\ p.data[k].id = n.taskId
                                /\ \E j \in 1..Len(p.data[k].subtasks) :
                                      p.data[k].subtasks[j] = n.data[1]]_vars

\* getTasks has answered with a task whose nested list ends with the
\* subtask, of status pending by default, that the createSubTask before it
\* returned, after an earlier subtask of the same task
C20_Witness ==
    \E r, c \in ReqIds :
      LET q == reqs[r]
          n == reqs[c]
      IN  /\ n.pc = "idle" /\ Done(r) /\ q.op = "getTasks" /\ q.status = 200
          /\ Len(q.data) = 1 /\ Len(q.data[1].subtasks) = 2
          /\ q.data[1].subtasks[2].status = PENDING
          /\ q.data[1].subtasks[2].id = 2
          /\ tasks[q.data[1].id].subtasks = <<1, 2>>
          /\ calls = 4

----------------------------------------------------------------------------
(* createSubTask on a task that does not match, checked under SpecSeq *)

\* On the arrival of request q its target was not an active task of its caller
NoMatchOnArrival(q) ==
    LET store == q.pre[1]
    IN  ~(/\ q.taskId \in 1..Len(store)
          /\ store[q.taskId].createdBy = q.user.userId
          /\ store[q.taskId].is_deleted = FALSE)

\* The original statement of C21: a createSubTask whose target is not an
\* active task of the caller answers 404 whatever its body, valid or invalid,
\* and leaves every task and subtask as it was.
C21_NoMatchAnyBody ==
    \A r \in ReqIds :
      LET q == reqs[r]
      IN  Done(r) /\ q.op = "createSubTask" /\ NoMatchOnArrival(q)
          => /\ q.status = 404 /\ q.message = "Task not found"
             /\ q.writes = 0
             /\ <<tasks, subtasks>> = q.pre

\* C21 (amended): a createSubTask whose target is not an active task of the
\* caller answers 404 'Task not found' when its body passes validation and
\* 400 without a store call when it does not; in both cases it issues no
\* store write and leaves every task and subtask as it was.
C21_NoMatch ==
    \A r \in ReqIds :
      LET q == reqs[r]
      IN  Done(r) /\ q.op = "createSubTask" /\ NoMatchOnArrival(q)
          => /\ IF PassesBodyChecks(q)
                THEN q.status = 404 /\ q.message = "Task not found" /\ q.reads = 1
                ELSE q.status = 400 /\ q.reads = 0
             /\ q.writes = 0
             /\ <<tasks, subtasks>> = q.pre

\* createSubTask with a valid body on an active task of another owner was
\* answered 404
C21_Witness ==
    \E r \in ReqIds :
      LET q == reqs[r]
      IN  /\ Done(r) /\ q.op = "createSubTask" /\ q.status = 404
          /\ PassesBodyChecks(q) /\ q.body.status = COMPLETED
          /\ q.taskId \in TaskIds
          /\ tasks[q.taskId].createdBy # q.user.userId
          /\ ~tasks[q.taskId].is_deleted
          /\ subtasks = << >>

----------------------------------------------------------------------------
(* One response per invocation, checked under SpecFailLive *)

\* C22: every invocation of a task handler ends with exactly one response,
\* sent by the handler; a request one of whose store calls was rejected has
\* answered 500 with the generic message and no data, the rejected call has
\* changed nothing, and a request that has answered issues no store call and
\* sends nothing afterwards; a handler entered without req.user answers 500
\* as well, without a store call.
C22_OneResponse ==
    /\ [](\A r \in ReqIds :
            LET q == reqs[r]
            IN  /\ q.sent <= 1
                /\ q.handler /\ q.pc = "done" => q.sent = 1 /\ q.sentBy = "handler"
                /\ q.handler /\ q.pc \notin {"idle", "done"} => q.sent = 0
                /\ q.failed => /\ q.pc = "done" /\ q.status = 500
                               /\ q.message \in {"Internal Server Error",
                                                  "Internal Server Error."}
                               /\ q.data = << >>
                /\ q.handler /\ q.user = NoUser
                     => q.failed /\ q.reads = 0 /\ q.writes = 0)
    /\ [][\A r \in ReqIds :
            LET q == reqs[r]
                p == reqs'[r]
            IN  /\ q.pc = "done" /\ calls' = calls => p = q
                /\ q.pc \notin {"idle", "done"} /\ p.failed
                     => tasks' = tasks /\ subtasks' = subtasks]_vars
    /\ \A r \in ReqIds :
          (reqs[r].handler /\ reqs[r].pc \notin {"idle", "done"})
             ~> (reqs[r].pc = "done" /\ reqs[r].sent = 1)

\* A bulk replace has answered 500 after its updateMany and one save had
\* gone through
C22_Witness ==
    \E r \in ReqIds :
      LET q == reqs[r]
      IN  /\ Done(r) /\ q.op = "updateSubtasks" /\ q.failed
          /\ q.status = 500 /\ q.sent = 1 /\ q.writes = 2
          /\ Len(subtasks) = Len(q.pre[2]) + 1

----------------------------------------------------------------------------
(* Soft deletion only, checked under Spec *)

\* C23: no step removes a task or a subtask record, and no step clears an
\* is_deleted flag that is set: every stored record stays stored under its
\* id, with its owner or parent, and a soft-deleted record stays soft-deleted.
C23_NoHardDeleteNoResurrection ==
    [][/\ Len(tasks') >= Len(tasks)
       /\ Len(subtasks') >= Len(subtasks)
       /\ \A t \in 1..Len(tasks) :
             /\ tasks'[t].createdBy = tasks[t].createdBy
             /\ tasks'[t].created_at = tasks[t].created_at
             /\ tasks[t].is_deleted => tasks'[t].is_deleted
       /\ \A i \in 1..Len(subtasks) :
             /\ subtasks'[i].taskId = subtasks[i].taskId
             /\ subtasks'[i].created_at = subtasks[i].created_at
             /\ subtasks[i].is_deleted => subtasks'[i].is_deleted]_vars

\* A bulk replace has stored a new subtask with the content of a subtask it
\* soft-deleted, which is still stored
C23_Witness ==
    /\ Len(tasks) = 1 /\ ~tasks[1].is_deleted
    /\ Len(subtasks) = 2
    /\ subtasks[1].is_deleted /\ ~subtasks[2].is_deleted
    /\ subtasks[1].subject = subtasks[2].subject
    /\ subtasks[1].status = subtasks[2].status
    /\ subtasks[1].taskId = 1 /\ subtasks[2].taskId = 1
    /\ tasks[1].subtasks = <<2>>

----------------------------------------------------------------------------
(* Token round trip, checked under SpecGate *)

\* C24: the token that generateToken(u, e) issues verifies under the
\* server's secret to claims with userId u, and a request that carries it as
\* bearer token reaches its task handler with req.user.userId = u, so that a
\* task the handler builds has createdBy u.
C24_TokenRoundTrip ==
    /\ \A u \in Users :
          LET v == jwtVerify(generateToken(u, Emails[u]), JWT_SECRET)
          IN  ~v.err /\ v.payload.userId = u /\ v.payload.email = Emails[u]
    /\ \A r \in ReqIds : \A u \in Users :
          Arrived(r) /\ reqs[r].auth = Bearer(generateToken(u, Emails[u]))
          => /\ reqs[r].handler
             /\ reqs[r].user.userId = u
             /\ reqs[r].pc = "createTask.save" => reqs[r].doc.createdBy = u

----------------------------------------------------------------------------
(* Stored values, checked under SpecUpdate *)

\* C25: in every reachable state the stored status of every task and of
\* every subtask is one of pending, in-progress, completed, whatever the
\* bodies of the requests were, a status that is present but empty included.
C25_StatusInvariant ==
    /\ \A t \in TaskIds :
          tasks[t].status \in {"pending", "in-progress", "completed"}
    /\ \A i \in SubIds :
          subtasks[i].status \in {"pending", "in-progress", "completed"}

\* C26: in every reachable state the stored subject of every task and of
\* every subtask is a non-empty text, whatever the bodies of the requests
\* were, an updateTask body whose subject is present but empty included.
C26_SubjectInvariant ==
    /\ \A t \in TaskIds : tasks[t].subject \notin {Undefined, ""}
    /\ \A i \in SubIds : subtasks[i].subject \notin {Undefined, ""}

----------------------------------------------------------------------------
(* Requests without owner identity, checked under SpecAnon *)

\* C27: a task handler entered with claims that carry no owner id answers
\* with a client error and makes no store call: it is never in flight, and
\* its reply is a 4xx with no read and no write counted; this holds for
\* updateSubtasks as for the six other operations.
C27_OwnerRequired ==
    \A r \in ReqIds :
      LET q == reqs[r]
      IN  q.handler /\ q.user \in AnonClaims /\ q.user.userId = Undefined
          => /\ q.pc = "done"
             /\ q.status \in 400..499
             /\ q.reads = 0 /\ q.writes = 0

----------------------------------------------------------------------------
(* The cascade of deleteTask, checked under SpecCascade *)

\* The original statement of C28: the step by which deleteTask(T) succeeds
\* sets is_deleted and writes the instant of the write into updated_at on
\* every subtask whose taskId is T, whatever its flag was, those that were
\* already soft-deleted included.
C28_CascadeAnyFlag ==
    [][\A r \in ReqIds :
         LET q == reqs[r]
             p == reqs'[r]
         IN  q.pc = "deleteTask.updateMany" /\ p.pc = "done" /\ p.status = 200
             => /\ Len(subtasks') = Len(subtasks)
                /\ \A i \in SubIds :
                      IF subtasks[i].taskId = q.taskId
                      THEN subtasks'[i] = [subtasks[i] EXCEPT !.is_deleted = TRUE,
                                                              !.updated_at = q.ts]
                      ELSE subtasks'[i] = subtasks[i]]_vars

\* C28 (amended): the step by which deleteTask(T) succeeds sets is_deleted
\* and writes the instant of the write into updated_at on every subtask
\* whose taskId is T and that was active; a subtask of T that was already
\* soft-deleted keeps its updated_at, and so does every subtask of another
\* task; no task changes in that step.
C28_CascadeActive ==
    [][\A r \in ReqIds :
         LET q == reqs[r]
             p == reqs'[r]
         IN  q.pc = "deleteTask.updateMany" /\ p.pc = "done" /\ p.status = 200
             => /\ Len(subtasks') = Len(subtasks)
                /\ \A i \in SubIds :
                      IF subtasks[i].taskId = q.taskId /\ ~subtasks[i].is_deleted
                      THEN subtasks'[i] = [subtasks[i] EXCEPT !.is_deleted = TRUE,
                                                              !.updated_at = q.ts]
                      ELSE subtasks'[i] = subtasks[i]
                /\ tasks' = tasks]_vars

\* deleteTask has succeeded, after the clock advanced, on a task with a
\* subtask that a bulk replace had soft-deleted before and a subtask that was
\* active: the former keeps its updated_at, the latter has the new one
C28_Witness ==
    \E r \in ReqIds :
      LET q == reqs[r]
      IN  /\ Done(r) /\ q.op = "deleteTask" /\ q.status = 200
          /\ Len(subtasks) = 2
          /\ subtasks[1].taskId = q.taskId /\ subtasks[2].taskId = q.taskId
          /\ subtasks[1].is_deleted /\ subtasks[2].is_deleted
          /\ subtasks[1].updated_at = 0 /\ subtasks[2].updated_at = 1
          /\ tasks[q.taskId].is_deleted

----------------------------------------------------------------------------
(* Operations that stop between two writes, checked under SpecStop *)

\* The subtasks a read has returned: the answer of getSubtasks, the nested
\* lists of the answer of getTasks
ReturnedSubtasks(q) ==
    IF q.op = "getSubtasks" THEN IdsOf(q.data)
    ELSE UNION {IdsOf(q.data[k].subtasks) : k \in 1..Len(q.data)}

\* C29: deleteTask flags the task in its first write and touches no subtask
\* in it; its second write, the only one that flags subtasks, finds the task
\* flagged; when the second write fails, the answer is 500, the task is
\* soft-deleted and the subtasks are as they were; and a getTasks or
\* getSubtasks that answers, then or later, returns no subtask whose task is
\* soft-deleted, getSubtasks on such a task answering 404.
C29_TaskFlagFirst ==
    [][\A r \in ReqIds :
         LET q == reqs[r]
             p == reqs'[r]
             T == q.taskId
         IN  /\ q.pc = "deleteTask.findOneAndUpdate" /\ p # q
                  => /\ subtasks' = subtasks
                     /\ p.pc # "done" => tasks'[T].is_deleted /\ ~tasks[T].is_deleted
             /\ q.pc = "deleteTask.updateMany" /\ p # q
                  => /\ tasks[T].is_deleted /\ tasks' = tasks
                     /\ p.failed => /\ p.status = 500
                                    /\ subtasks' = subtasks
                                    /\ T \notin deletedOk'
                     /\ ~p.failed => \A i \in SubIds :
                                        subtasks[i].taskId = T => subtasks'[i].is_deleted
             /\ q.op \in {"getTasks", "getSubtasks"} /\ q.pc # "done"
                  /\ p.pc = "done" /\ p.status = 200
                  => \A i \in ReturnedSubtasks(p) : ~tasks[subtasks[i].taskId].is_deleted
             /\ q.pc = "getSubtasks.findOne" /\ p # q /\ ~p.failed
                  /\ T \in TaskIds /\ tasks[T].is_deleted
                  => p.pc = "done" /\ p.status = 404]_vars

\* After a deleteTask that stopped between its two writes, the task being
\* soft-deleted and its subtask active, a getSubtasks of the owner on that
\* task was answered 404
C29_Witness ==
    \E r \in ReqIds :
      LET q == reqs[r]
      IN  /\ Done(r) /\ q.op = "getSubtasks" /\ q.status = 404
          /\ q.taskId \in TaskIds
          /\ tasks[q.taskId].is_deleted
          /\ tasks[q.taskId].createdBy = q.user.userId
          /\ q.taskId \notin deletedOk
          /\ \E i \in SubIds : subtasks[i].taskId = q.taskId /\ ~subtasks[i].is_deleted

\* The subtask that createSubTask request n saved before its append to the
\* reference list was rejected (one request at a time: the id that follows
\* those of the store it found)
Unreferenced(n) == Len(n.pre[2]) + 1

\* createSubTask request n was answered 500 because its append was rejected
AppendFailed(n) ==
    /\ n.pc = "done" /\ n.op = "createSubTask" /\ n.failed
    /\ n.reads = 1 /\ n.writes = 1
    /\ PassesBodyChecks(n) /\ n.body.status # ""

\* C30: when the append to the parent's reference list is rejected after the
\* subtask was saved, createSubTask answers 500 with the generic message, the
\* subtask is stored, active, with the parent's id, and the reference list of
\* the parent is as it was; a getSubtasks on the parent that follows returns
\* the subtask, and the nested list of the parent in a getTasks that follows
\* does not contain it.
C30_AppendFails ==
    [][/\ \A r \in ReqIds :
            LET q  == reqs[r]
                p  == reqs'[r]
                T  == q.taskId
                id == Unreferenced(q)
            IN  q.pc = "createSubTask.push" /\ p.failed
                => /\ p.pc = "done" /\ p.status = 500
                   /\ p.message = "Internal Server Error" /\ p.data = << >>
                   /\ AppendFailed(p)
                   /\ tasks' = q.pre[1] /\ tasks' = tasks
                   /\ subtasks' = subtasks
                   /\ Len(subtasks') = id
                   /\ subtasks'[id].taskId = T
                   /\ subtasks'[id].is_deleted = FALSE
                   /\ subtasks'[id].subject = q.body.subject
                   /\ \A j \in 1..Len(tasks'[T].subtasks) : tasks'[T].subtasks[j] # id
       /\ \A r, c \in ReqIds :
            LET q  == reqs[r]
                p  == reqs'[r]
                n  == reqs[c]
                id == Unreferenced(n)
            IN  /\ AppendFailed(n)
                /\ q.user = n.user /\ q.pc # "done" /\ p.pc = "done" /\ ~p.failed
                => /\ q.op = "getSubtasks" /\ q.taskId = n.taskId
                        => /\ p.status = 200
                           /\ \E k \in 1..Len(p.data) :
                                 p.data[k] = WithId(subtasks[id], id)
                   /\ q.op = "getTasks"
                        => /\ p.status = 200
                           /\ \E k \in 1..Len(p.data) : p.data[k].id = n.taskId
                           /\ id \notin ReturnedSubtasks(p)]_vars

\* After a createSubTask whose append was rejected, on a task that had a
\* referenced subtask, getTasks has answered with the task and only the
\* referenced subtask in its nested list, the second subtask being active
C30_Witness ==
    \E r \in ReqIds :
      LET q == reqs[r]
      IN  /\ Done(r) /\ q.op = "getTasks" /\ q.status = 200
          /\ Len(q.data) = 1 /\ IdsOf(q.data[1].subtasks) = {1}
          /\ Len(subtasks) = 2
          /\ subtasks[2].taskId = q.data[1].id /\ ~subtasks[2].is_deleted
          /\ tasks[q.data[1].id].subtasks = <<1>>
          /\ calls = 4

----------------------------------------------------------------------------
(* Concurrent requests on one task, checked under SpecRace *)

\* Request q is a deleteTask that has flagged its task: it is at its second
\* store call or has answered with success
DeleteWon(q) ==
    /\ q.op = "deleteTask"
    /\ q.pc = "deleteTask.updateMany" \/ (q.pc = "done" /\ q.status = 200)

\* C31: of the deleteTask requests on one task that run concurrently, the one
\* whose store call finds the task active flags it and goes on to success,
\* and every one whose store call comes later is answered 404 and changes
\* nothing, so that no two of them succeed; and the store call by which an
\* updateTask succeeds finds the task active, applies the write and leaves
\* it active.
C31_OneDeleteWins ==
    /\ [](\A r, s \in ReqIds :
            r # s /\ reqs[r].taskId = reqs[s].taskId
            => ~(DeleteWon(reqs[r]) /\ DeleteWon(reqs[s])))
    /\ [][\A r \in ReqIds :
            LET q == reqs[r]
                p == reqs'[r]
                T == q.taskId
                active == /\ T \in TaskIds
                          /\ tasks[T].createdBy = q.user.userId
                          /\ ~tasks[T].is_deleted
            IN  /\ q.pc = "deleteTask.findOneAndUpdate" /\ p # q
                     => IF active
                        THEN /\ DeleteWon(p) /\ tasks'[T].is_deleted
                        ELSE /\ p.pc = "done" /\ p.status = 404
                             /\ tasks' = tasks /\ subtasks' = subtasks
                /\ q.pc = "updateTask.findOneAndUpdate" /\ p # q
                     => IF active
                        THEN /\ p.pc = "done" /\ p.status = 200
                             /\ ~tasks'[T].is_deleted
                             /\ Supplied(q.body.subject)
                                  => tasks'[T].subject = q.body.subject
                             /\ Supplied(q.body.status)
                                  => tasks'[T].status = q.body.status
                             /\ p.data = <<WithId(tasks'[T], T)>>
                        ELSE /\ p.pc = "done" /\ p.status = 404
                             /\ tasks' = tasks /\ subtasks' = subtasks]_vars

\* Of two deleteTask requests on the same task, one has flagged the task and
\* not yet its subtask, and the other was answered 404 in between
C31_Witness ==
    \E r, s \in ReqIds :
      /\ r # s /\ reqs[r].taskId = reqs[s].taskId
      /\ reqs[r].op = "deleteTask" /\ reqs[r].pc = "deleteTask.updateMany"
      /\ reqs[s].op = "deleteTask" /\ reqs[s].pc = "done"
      /\ reqs[s].status = 404 /\ reqs[s].writes = 1
      /\ \E i \in SubIds : subtasks[i].taskId = reqs[r].taskId /\ ~subtasks[i].is_deleted

\* The number of positions of the list refs that hold id
Occurrences(refs, id) == Cardinality({j \in 1..Len(refs) : refs[j] = id})

\* C32: when a createSubTask on task T answers 201 while the answer 201 of
\* another createSubTask on T, which ran alongside it, is still held, the
\* two subtasks have different ids and the reference list of T contains
\* each of the two ids exactly once.
C32_NoLostAppend ==
    [][\A r, s \in ReqIds :
         LET q == reqs[r]
             p == reqs'[r]
             n == reqs[s]
             T == q.taskId
         IN  /\ r # s
             /\ q.pc = "createSubTask.push" /\ p.pc = "done" /\ p.status = 201
             /\ n.pc = "done" /\ n.op = "createSubTask" /\ n.status = 201
             /\ n.taskId = T
             => /\ p.data[1].id # n.data[1].id
                /\ Occurrences(tasks'[T].subtasks, p.data[1].id) = 1
                /\ Occurrences(tasks'[T].subtasks, n.data[1].id) = 1]_vars

\* Two createSubTask requests on task 1 ran alongside each other: the one
\* that saved first appended last, and the reference list holds both ids
C32_Witness ==
    /\ Len(tasks) = 1 /\ tasks[1].subtasks = <<2, 1>>
    /\ ~tasks[1].is_deleted
    /\ Len(subtasks) = 2
    /\ ~subtasks[1].is_deleted /\ ~subtasks[2].is_deleted
    /\ \E r \in ReqIds :
          /\ Done(r) /\ reqs[r].op = "createSubTask" /\ reqs[r].status = 201
          /\ reqs[r].data[1].id = 1

\* C33: when an updateSubtasks on task T answers 200 while the answer 200 of
\* another updateSubtasks on T, which ran alongside it, is still held, the
\* active subtasks of T are exactly the subtasks that one of the two
\* requests created, not a mixture or the union of both.
C33_ReplaceNotMerge ==
    [][\A r, s \in ReqIds :
         LET q == reqs[r]
             p == reqs'[r]
             n == reqs[s]
             T == q.taskId
         IN  /\ r # s
             /\ q.pc = "updateSubtasks.findByIdAndUpdate"
             /\ p.pc = "done" /\ p.status = 200
             /\ n.pc = "done" /\ n.op = "updateSubtasks" /\ n.status = 200
             /\ n.taskId = T
             => \/ ActiveOf(subtasks', T) = IdsOf(p.data)
                \/ ActiveOf(subtasks', T) = IdsOf(n.data)]_vars

\* C34: in every state in which no request is in flight, for every active
\* task T the active subtasks that T's reference list names (what getTasks
\* attaches) are the active subtasks with taskId T (what getSubtasks
\* returns), whatever the interleaving of the createSubTask, updateSubtasks
\* and deleteTask requests before.
C34_ReadPathsAgree ==
    Quiet
    => \A T \in TaskIds :
         ~tasks[T].is_deleted
         => IdsOf(Populate(tasks[T].subtasks, subtasks)) = ActiveOf(subtasks, T)

\* C35: no step changes the subject, deadline, status, reference list or
\* updated_at of a task whose is_deleted flag is set, also not a step of a
\* createSubTask or updateSubtasks that looked the task up before it was
\* soft-deleted.
C35_DeletedTaskFrozen ==
    [][\A T \in TaskIds :
         tasks[T].is_deleted
         => /\ tasks'[T].subject = tasks[T].subject
            /\ tasks'[T].deadline = tasks[T].deadline
            /\ tasks'[T].status = tasks[T].status
            /\ tasks'[T].subtasks = tasks[T].subtasks
            /\ tasks'[T].updated_at = tasks[T].updated_at]_vars

----------------------------------------------------------------------------
(* Ownership, checked under Spec *)

\* C36: a step of a request entered with owner identity A, its arrival
\* included, whatever its task id and body, leaves every task whose
\* createdBy is not A and every subtask of such a task as it was.
C36_MutationIsolation ==
    [][\A r \in ReqIds :
         reqs'[r] # reqs[r] /\ reqs'[r] # Idle
         => LET A == reqs'[r].user.userId
            IN  /\ \A t \in TaskIds :
                      tasks[t].createdBy # A => tasks'[t] = tasks[t]
                /\ \A i \in SubIds :
                      tasks[subtasks[i].taskId].createdBy # A
                      => subtasks'[i] = subtasks[i]]_vars

\* A deleteTask of another caller on a task that has an active subtask was
\* answered 404, and the task and the subtask are active
C36_Witness ==
    \E r \in ReqIds :
      LET q == reqs[r]
      IN  /\ Done(r) /\ q.op = "deleteTask" /\ q.status = 404
          /\ q.miss = "foreign" /\ q.writes = 1
          /\ ~tasks[q.taskId].is_deleted
          /\ tasks[q.taskId].subtasks # << >>
          /\ \E i \in SubIds : subtasks[i].taskId = q.taskId /\ ~subtasks[i].is_deleted

\* C37: in every reachable state every id in the reference list of a task T
\* is the id of a stored subtask whose taskId is T, and no id occurs twice in
\* the list; and no step changes the createdBy of a stored task or the
\* taskId of a stored subtask.
C37_ReferentialIntegrity ==
    /\ [](\A T \in TaskIds :
            \A j \in 1..Len(tasks[T].subtasks) :
               LET id == tasks[T].subtasks[j]
               IN  /\ id \in SubIds
                   /\ subtasks[id].taskId = T
                   /\ Occurrences(tasks[T].subtasks, id) = 1)
    /\ [][/\ \A T \in TaskIds :
               T \in 1..Len(tasks') /\ tasks'[T].createdBy = tasks[T].createdBy
           /\ \A i \in SubIds :
               i \in 1..Len(subtasks') /\ subtasks'[i].taskId = subtasks[i].taskId]_vars

\* Of two stored tasks the second references the one stored subtask, which
\* names it as its parent, and the first references none
C37_Witness ==
    /\ Len(tasks) = 2 /\ Len(subtasks) = 1
    /\ tasks[1].subtasks = << >> /\ tasks[2].subtasks = <<1>>
    /\ subtasks[1].taskId = 2
    /\ \A r \in ReqIds : reqs[r].pc \in {"idle", "done"}

====
